---- MODULE Spec2Model ----
(***************************************************************************)
(* CortAI: the broker-driven video pipeline                                *)
(*   front-end -> [collect] -> transcribe -> analyse -> edit -> completed  *)
(* Modelled: the KV state store (state_manager.py), the broker primitives  *)
(* (messaging_rabbit.py), the job launcher (main.py) and the four stage    *)
(* handlers (workers/*.py) with the outcomes of their collaborators.       *)
(*                                                                         *)
(* consume() is given a handler by each worker's __main__, but _callback   *)
(* never calls it.  The deliveries are therefore settled by _callback      *)
(* alone, and the stage handlers are operations called on the envelopes    *)
(* published to their queue (variable calls), at most once per envelope.   *)
(*                                                                         *)
(* Environment of Spec: the Redis client is connected and its calls        *)
(* succeed; the broker is reachable.                                       *)
(***************************************************************************)
EXTENDS Integers, Sequences, FiniteSets, TLC

\* ------------------------------------------------------------------------
\* Bounds of the model
\* ------------------------------------------------------------------------
MaxJobs == 1        \* jobs submitted by the launcher
MaxSegments == 2    \* segment files a stream capture leaves on disk
MaxForeign == 1     \* bodies put on a queue by a publisher outside the pipeline
MaxRuns == 2        \* concurrent invocations of the graph of graphs/main_graph.py

\* the longest list of highlights given to the normalizations
MaxInputHighlights == 2
\* the longest list of segments given to create_chunks_from_segments
MaxChunkSegments == 3
\* the latest second a segment or a clip boundary lies at
MaxSeconds == 4
\* the longest chunk window and the longest overlap, in seconds
MaxWindow == 2
\* the longest list of segments given to build_clipped_transcription
MaxClipSegments == 2

\* ------------------------------------------------------------------------
\* messaging_rabbit.py: queue names
\* ------------------------------------------------------------------------
COLLECT_QUEUE == "collect_queue"
DEAD_LETTER_QUEUE == "dead_letter_queue"
TRANSCRIBE_QUEUE == "transcribe_queue"
ANALYSE_QUEUE == "analyse_queue"
EDIT_QUEUE == "edit_queue"
COMPLETED_QUEUE == "completed_queue"

\* declare_infraestructure: the queues declared with dlq_args
DlqArgsQueues == {COLLECT_QUEUE, TRANSCRIBE_QUEUE, ANALYSE_QUEUE, EDIT_QUEUE}

QueueNames == DlqArgsQueues \cup {COMPLETED_QUEUE, DEAD_LETTER_QUEUE}

\* the worker processes: `consume(<queue>, handle_<stage>)` in each __main__
Workers == {"collector", "transcriber", "analyst", "editor"}

\* the consumers: one per worker, and a second transcriber worker process
\* consuming the same queue
Consumers == Workers \cup {"transcriber_2"}

WorkerQueue(w) ==
    CASE w = "collector" -> COLLECT_QUEUE
      [] w \in {"transcriber", "transcriber_2"} -> TRANSCRIBE_QUEUE
      [] w = "analyst" -> ANALYSE_QUEUE
      [] w = "editor" -> EDIT_QUEUE

QueueWorker(q) == CHOOSE w \in Workers : WorkerQueue(w) = q

\* ------------------------------------------------------------------------
\* Python dicts as functions from key to value
\* ------------------------------------------------------------------------
EmptyDict == [k \in {} |-> ""]

\* dict.update(data)
DictUpdate(d, data) ==
    [k \in DOMAIN d \cup DOMAIN data |-> IF k \in DOMAIN data THEN data[k] ELSE d[k]]

\* `not d.get(k)` for a string-valued key: absent or empty
Falsy(d, k) == k \notin DOMAIN d \/ d[k] = ""

\* a JSON value read back from a file is a dict or a list (isinstance)
JsonDict(d) == [is |-> "dict", val |-> d]

JsonList(l) == [is |-> "list", val |-> l]

\* decimal digits, for f"{idx:03d}" and job names
Digit(d) ==
    CASE d = 0 -> "0" [] d = 1 -> "1" [] d = 2 -> "2" [] d = 3 -> "3" [] d = 4 -> "4"
      [] d = 5 -> "5" [] d = 6 -> "6" [] d = 7 -> "7" [] d = 8 -> "8" [] d = 9 -> "9"

\* f"{idx:03d}": at least three digits, zero-padded on the left
Pad3(i) ==
    IF i < 1000
    THEN Digit(i \div 100) \o Digit((i \div 10) % 10) \o Digit(i % 10)
    ELSE Digit(i \div 1000) \o Digit((i \div 100) % 10) \o Digit((i \div 10) % 10) \o Digit(i % 10)

\* ------------------------------------------------------------------------
\* Paths: directory components, base name and extension
\* ------------------------------------------------------------------------
Path(dir, base, ext) == [dir |-> dir, base |-> base, ext |-> ext]

\* os.path.dirname of a directory
DirName(dir) == SubSeq(dir, 1, Len(dir) - 1)

JobsRoot == <<"app", "data", "jobs">>

IsPrefix(s, t) == Len(s) <= Len(t) /\ SubSeq(t, 1, Len(s)) = s

\* ------------------------------------------------------------------------
\* state_manager.py
\* ------------------------------------------------------------------------
\* _redis_client as the state manager of a process finds it: "connected",
\* "None" (no client can be obtained) or "broken" (obtained, its calls raise)
VARIABLE redis_client

RedisClients == {"connected", "None", "broken"}

\* client.get and client.set raise redis.exceptions.ConnectionError
ConnectionError == redis_client = "broken"

PENDING == "PENDING"
PROCESSING == "PROCESSING"
COMPLETED == "COMPLETED"
FAILED == "FAILED"

get_job_key(job_id) == "job:" \o job_id

\* initialize_job: SET of a fresh record, whatever was stored under the key;
\* nothing is stored without a client, nor by a call that raises
initialize_job(store, job_id, url) ==
    LET key == get_job_key(job_id)
        initial_state == [job_id |-> job_id, url |-> url, status |-> PENDING,
                          current_step |-> "START", progress |-> 0,
                          created_at |-> "unknown"]
    IN  IF redis_client # "connected"
        THEN store
        ELSE [k \in DOMAIN store \cup {key} |-> IF k = key THEN initial_state ELSE store[k]]

\* an update that stores a record for a job that has none
update_job_state_upsert(store, job_id, status, current_step, data) ==
    LET key == get_job_key(job_id)
        stored == IF key \in DOMAIN store THEN store[key] ELSE [job_id |-> job_id]
        current_state == DictUpdate(stored, [status |-> status, current_step |-> current_step])
    IN  IF redis_client # "connected"
        THEN store
        ELSE [k \in DOMAIN store \cup {key} |->
                 IF k = key THEN DictUpdate(current_state, data) ELSE store[k]]

\* update_job_state: GET, patch status and current_step, merge data, SET;
\* a job without record is left alone, and so is the store without a client
\* or when the call raises
update_job_state(store, job_id, status, current_step, data) ==
    LET key == get_job_key(job_id)
    IN  IF redis_client # "connected" \/ key \notin DOMAIN store
        THEN store
        ELSE LET current_state ==
                     DictUpdate(store[key], [status |-> status, current_step |-> current_step])
             IN  [store EXCEPT ![key] =
                     IF DOMAIN data # {} THEN DictUpdate(current_state, data) ELSE current_state]

\* get_job_state: the record, or absent
HasJobState(store, job_id) == get_job_key(job_id) \in DOMAIN store

get_job_state(store, job_id) == store[get_job_key(job_id)]

\* ------------------------------------------------------------------------
\* messaging_rabbit.py: envelopes, bodies, publish
\* ------------------------------------------------------------------------
\* new_job that always generates the id, a different one at each call
new_job_generated(step, payload, job_id) ==
    [job_id |-> "generated_for_" \o step, step |-> step, payload |-> payload]

\* new_job with an explicit job_id
new_job(step, payload, job_id) == [job_id |-> job_id, step |-> step, payload |-> payload]

\* json.dumps(message) / json.loads(body): a body is JSON text of a value, or
\* bytes that are no JSON at all
json_dumps(message) == [kind |-> "json", value |-> message]

Garbage == [kind |-> "garbage"]

JSONDecodeError(body) == body.kind # "json"

json_loads(body) == body.value

NoDelivery == [kind |-> "none"]

\* basic_publish on the default exchange, routing key = queue
publish(qs, queue, message) == [qs EXCEPT ![queue] = Append(@, json_dumps(message))]

\* basic_nack: back to the queue, or dead-lettered through dlx when the
\* queue was declared with dlq_args, or dropped
basic_nack(qs, queue, body, requeue) ==
    IF requeue
    THEN [qs EXCEPT ![queue] = <<body>> \o @]
    ELSE IF queue \in DlqArgsQueues
         THEN [qs EXCEPT ![DEAD_LETTER_QUEUE] = Append(@, body)]
         ELSE qs

VARIABLES
    redis,      \* the KV store: key -> job record
    queues,     \* broker: queue name -> bodies waiting, oldest first
    unacked,    \* worker -> the delivery it holds unacknowledged (prefetch 1)
    settled,    \* deliveries _callback has acked or nacked
    calls,      \* worker -> envelopes its handler is still to be called on
    pc,         \* worker -> position of its handler
    arg,        \* worker -> the envelope being handled
    loc,        \* worker -> locals of the running handler
    handled,    \* finished handler calls: worker, envelope, returned or raised
    files,      \* shared filesystem: path -> what the file holds
    submitted,  \* number of jobs the launcher has created
    foreign,    \* number of bodies published from outside the pipeline
    sent,       \* every publish() made so far, in order: queue and envelope
    failures    \* handler calls whose collaborator failed: worker, envelope, how

\* the in-process DAG (core/tasks.py, core/graph.py) on one video
VARIABLES
    dag_pc,          \* where the task stands: the node to run next, or how it ended
    state,           \* CortAIState: the dict the nodes pass on
    video,           \* the row of the video in the database
    progress_writes, \* every progress write made on the row, in order: stage, percentage
    collab_calls     \* every call of a collaborator made by a node, in order

\* a highlights JSON given to the editor's two normalizations
VARIABLE
    norm    \* the JSON read, the highlights it describes, what each made of it

\* the graph of graphs/main_graph.py, invoked several times
VARIABLE
    runs    \* run -> the node it is to run next or how it ended, the paths it wrote

\* a call of create_chunks_from_segments (utils/chunking.py)
VARIABLE
    chunker \* the arguments, the locals of the walk, what it placed and closed

\* a call of build_clipped_transcription (core/graph.py)
VARIABLE
    clipper \* the segments of the transcription file, start, end, what it returned

\* a call of get_connection (services/messaging_rabbit.py)
VARIABLE
    connection  \* the attempts made, the waits made, how the call ended

dagvars == <<dag_pc, state, video, progress_writes, collab_calls>>

\* the calls of the utilities, each on its own arguments
utilvars == <<chunker, clipper, connection>>

\* everything but the calls of the utilities
appvars == <<redis, queues, unacked, settled, calls, pc, arg, loc, handled, files,
             submitted, foreign, sent, failures, dagvars, redis_client, norm, runs>>

vars == <<redis, queues, unacked, settled, calls, pc, arg, loc, handled, files,
          submitted, foreign, sent, failures, dagvars, redis_client, norm, runs, utilvars>>

\* what a publish adds: the body on the queue, and the envelope among the
\* calls of the queue's handler (COMPLETED has no consumer)
Published(cs, queue, message) ==
    IF queue \in DlqArgsQueues
    THEN [cs EXCEPT ![QueueWorker(queue)] = @ \cup {message}]
    ELSE cs

\* publish(queue, message) as a step of the caller
Publish(queue, message) ==
    /\ queues' = publish(queues, queue, message)
    /\ calls' = Published(calls, queue, message)
    /\ sent' = Append(sent, [queue |-> queue, message |-> message])

InitPipeline ==
    /\ redis = EmptyDict
    /\ redis_client = "connected"
    /\ queues = [q \in QueueNames |-> <<>>]
    /\ unacked = [w \in Consumers |-> NoDelivery]
    /\ settled = {}
    /\ calls = [w \in Workers |-> {}]
    /\ pc = [w \in Workers |-> "idle"]
    /\ arg = [w \in Workers |-> EmptyDict]
    /\ loc = [w \in Workers |-> EmptyDict]
    /\ handled = {}
    /\ files = EmptyDict
    /\ submitted = 0
    /\ foreign = 0
    /\ sent = <<>>
    /\ failures = {}
    /\ dag_pc = "ready"
    /\ state = EmptyDict
    /\ video = [id |-> 1, status |-> "processing"]   \* as the API created it
    /\ progress_writes = <<>>
    /\ collab_calls = <<>>
    /\ runs = [r \in 1 .. MaxRuns |-> [pc |-> "transcrever", written |-> {}]]

\* no highlights JSON has been read
Unread == [dados |-> JsonList(<<>>), highlights |-> <<>>, out |-> EmptyDict]

\* the utility has not been called
Uncalled == [pc |-> "uncalled"]

Init ==
    /\ InitPipeline
    /\ norm = Unread
    /\ chunker = Uncalled
    /\ clipper = Uncalled
    /\ connection = Uncalled

\* ------------------------------------------------------------------------
\* main.py: the launcher
\* ------------------------------------------------------------------------
\* uuid4().hex[:12]: a fresh id per job
JobName(n) == "job" \o Digit(n)

VideoUrl == "https://example/video"

\* process_video: initialize_job, then publish {url} to TRANSCRIBE; an
\* exception of initialize_job ends the launcher before the publish
process_video ==
    /\ submitted < MaxJobs
    /\ LET job_id == JobName(submitted + 1)
           msg == new_job("transcribe", [url |-> VideoUrl], job_id)
       IN  IF ConnectionError
           THEN UNCHANGED <<redis, queues, calls, sent>>
           ELSE /\ redis' = initialize_job(redis, job_id, VideoUrl)
                /\ Publish(TRANSCRIBE_QUEUE, msg)
    /\ submitted' = submitted + 1
    /\ UNCHANGED <<unacked, settled, pc, arg, loc, handled, files, foreign, dagvars, redis_client, norm, runs, utilvars, failures>>

\* process_stream: initialize_job, then publish the stream parameters to COLLECT
process_stream ==
    /\ submitted < MaxJobs
    /\ LET job_id == JobName(submitted + 1)
           msg == new_job("collect",
                          [stream_url |-> VideoUrl, segment_duration |-> 30,
                           max_duration |-> 120], job_id)
       IN  IF ConnectionError
           THEN UNCHANGED <<redis, queues, calls, sent>>
           ELSE /\ redis' = initialize_job(redis, job_id, VideoUrl)
                /\ Publish(COLLECT_QUEUE, msg)
    /\ submitted' = submitted + 1
    /\ UNCHANGED <<unacked, settled, pc, arg, loc, handled, files, foreign, dagvars, redis_client, norm, runs, utilvars, failures>>

\* ------------------------------------------------------------------------
\* messaging_rabbit.py: consume
\* ------------------------------------------------------------------------
\* a delivery that leaves the body on the queue
DeliverPeek(w) ==
    /\ unacked[w] = NoDelivery
    /\ queues[WorkerQueue(w)] # <<>>
    /\ unacked' = [unacked EXCEPT ![w] = Head(queues[WorkerQueue(w)])]
    /\ UNCHANGED <<redis, queues, settled, calls, pc, arg, loc, handled, files, submitted, foreign,
                   dagvars, redis_client, norm, runs, utilvars, sent, failures>>

\* the broker hands the oldest body to a consumer holding nothing (prefetch 1)
Deliver(w) ==
    /\ unacked[w] = NoDelivery
    /\ queues[WorkerQueue(w)] # <<>>
    /\ unacked' = [unacked EXCEPT ![w] = Head(queues[WorkerQueue(w)])]
    /\ queues' = [queues EXCEPT ![WorkerQueue(w)] = Tail(@)]
    /\ UNCHANGED <<redis, settled, calls, pc, arg, loc, handled, files, submitted, foreign, dagvars, redis_client, norm, runs, utilvars,
                   sent, failures>>

\* what _callback does with a body: nack without requeue when it is no JSON,
\* ack otherwise; the handler passed to consume is called on no delivery
CallbackOutcome(body) == IF JSONDecodeError(body) THEN "nack" ELSE "ack"

CallbackHandlerCalls(body) == 0

\* the nack of _callback with requeue left at pika's default
CallbackRequeueDefault == TRUE

CallbackRequeue == FALSE

\* consume._callback on the delivery the worker holds
Callback(w) ==
    /\ unacked[w] # NoDelivery
    /\ LET body == unacked[w]
           queue == WorkerQueue(w)
       IN  /\ queues' = IF CallbackOutcome(body) = "nack"
                        THEN basic_nack(queues, queue, body, CallbackRequeue)
                        ELSE queues
           /\ settled' = settled \cup
                  {[queue |-> queue, body |-> body, outcome |-> CallbackOutcome(body),
                    handler_calls |-> CallbackHandlerCalls(body)]}
    /\ unacked' = [unacked EXCEPT ![w] = NoDelivery]
    /\ UNCHANGED <<redis, calls, pc, arg, loc, handled, files, submitted, foreign, dagvars, redis_client, norm, runs, utilvars, sent,
                   failures>>

\* a publisher outside the pipeline puts a body on a primary queue: bytes
\* that are no JSON, or an envelope that lacks a field its stage reads
ForeignEnvelopes(queue) ==
    CASE queue = COLLECT_QUEUE ->
            {new_job("collect", [segment_duration |-> 30], "ghost"),
             [step |-> "collect", payload |-> [stream_url |-> VideoUrl]]}
      [] queue = TRANSCRIBE_QUEUE ->
            {new_job("transcribe", EmptyDict, JobName(1)),
             [step |-> "transcribe", payload |-> [url |-> VideoUrl]]}
      [] queue = ANALYSE_QUEUE ->
            {new_job("analyse", [video_path |-> Path(<<"app", "data", "videos">>, "ghost", "mp4")],
                     "ghost"),
             new_job("analyse",
                     [transcription_path |-> Path(<<"nonexistent">>, "ghost", "json"),
                      video_path |-> Path(<<"app", "data", "videos">>, "ghost", "mp4")],
                     JobName(1))}
      [] queue = EDIT_QUEUE ->
            {new_job("edit", [video_path |-> Path(<<"app", "data", "videos">>, "ghost", "mp4")],
                     "ghost")}

\* the store becomes unreachable: processes started since find no client,
\* the others hold a client whose calls raise
redis_outage(client) ==
    /\ redis_client = "connected"
    /\ redis_client' = client
    /\ UNCHANGED <<redis, queues, unacked, settled, calls, pc, arg, loc, handled, files,
                   submitted, foreign, sent, failures, dagvars, norm, runs, utilvars>>

ForeignPublish(queue, body) ==
    /\ foreign < MaxForeign
    /\ foreign' = foreign + 1
    /\ queues' = [queues EXCEPT ![queue] = Append(@, body)]
    /\ calls' = IF JSONDecodeError(body) THEN calls
                ELSE Published(calls, queue, json_loads(body))
    /\ UNCHANGED <<redis, unacked, settled, pc, arg, loc, handled, files, submitted, sent,
                   failures, dagvars, redis_client, norm, runs, utilvars>>

\* ------------------------------------------------------------------------
\* The stage handlers: common steps
\* ------------------------------------------------------------------------
\* the handler of worker w is called on an envelope published to its queue
Called(w, msg) ==
    /\ pc[w] = "idle"
    /\ msg \in calls[w]
    /\ calls' = [calls EXCEPT ![w] = @ \ {msg}]

\* the call stays in the handler, at label l with locals l_loc
Goto(w, msg, l, l_loc) ==
    /\ pc' = [pc EXCEPT ![w] = l]
    /\ arg' = [arg EXCEPT ![w] = msg]
    /\ loc' = [loc EXCEPT ![w] = l_loc]
    /\ UNCHANGED handled

\* the call ends: result is "returned" or "raised"
Finish(w, msg, result) ==
    /\ pc' = [pc EXCEPT ![w] = "idle"]
    /\ arg' = [arg EXCEPT ![w] = EmptyDict]
    /\ loc' = [loc EXCEPT ![w] = EmptyDict]
    /\ handled' = handled \cup {[worker |-> w, msg |-> msg, result |-> result]}

\* the statements that follow a call of the state manager: when the call
\* raised they are not reached, the exception leaves the handler
OrRaise(w, msg, rest) == IF ConnectionError THEN Finish(w, msg, "raised") ELSE rest

\* the collaborator of the call failed: recorded with how it failed
CollaboratorFailed(w, msg, how) ==
    failures' = failures \cup {[worker |-> w, msg |-> msg, how |-> how]}

\* message.get("payload", {})
GetPayload(msg) == IF "payload" \in DOMAIN msg THEN msg.payload ELSE EmptyDict

\* ------------------------------------------------------------------------
\* workers/transcriber_worker.py
\* ------------------------------------------------------------------------
TranscriptionPath(job_id) == Path(<<"app", "data", "transcriptions">>, job_id, "json")

TempVideoPath(job_id) == Path(<<"app", "data", "videos">>, job_id, "mp4")

\* agents/transcriber.py transcricao_youtube_video: every exception is caught
\* and turned into None; on success the video and the transcript are on disk
TranscriberResults == {"ok", "None"}

\* the step the transcriber gives up on when the payload has no url
TranscriberNoUrlStep == "transcribe_invalid_url"

\* handle_transcriber, lines 43-68: read the envelope, mark the job PROCESSING
transcriber_start(msg) ==
    LET w == "transcriber"
        payload == GetPayload(msg)
    IN  /\ Called(w, msg)
        /\ IF Falsy(msg, "job_id")
           THEN /\ Finish(w, msg, "returned")
                /\ UNCHANGED redis
           ELSE IF Falsy(payload, "url")
           THEN /\ redis' = update_job_state(redis, msg.job_id, FAILED, TranscriberNoUrlStep,
                                             [error |-> "URL nao fornecida"])
                /\ OrRaise(w, msg, Finish(w, msg, "returned"))
           ELSE /\ redis' = update_job_state(redis, msg.job_id, PROCESSING, "transcribe",
                                             [url |-> payload.url])
                /\ OrRaise(w, msg, Goto(w, msg, "transcribe", EmptyDict))
        /\ UNCHANGED <<queues, unacked, settled, files, submitted, foreign, dagvars, redis_client, norm, runs, utilvars, sent, failures>>

\* handle_transcriber without the return of line 109: after recording the
\* failure the handler goes on to the publish
transcriber_run_without_return(result) ==
    LET w == "transcriber"
        msg == arg[w]
        job_id == msg.job_id
        next_payload == [transcription_path |-> TranscriptionPath(job_id),
                         video_path |-> TempVideoPath(job_id)]
        next_msg == new_job("analyse", next_payload, job_id)
    IN  /\ pc[w] = "transcribe"
        /\ IF result = "None"
           THEN /\ redis' = update_job_state(redis, job_id, FAILED, "transcribe_failed",
                                             [error |-> "Transcricao retornou None"])
                /\ CollaboratorFailed(w, msg, "None")
                /\ Publish(ANALYSE_QUEUE, next_msg)
                /\ Goto(w, msg, "published", next_payload)
                /\ UNCHANGED files
           ELSE /\ files' = DictUpdate(files,
                       [p \in {TranscriptionPath(job_id), TempVideoPath(job_id)} |->
                           IF p.ext = "json" THEN [type |-> "transcript"] ELSE [type |-> "media"]])
                /\ Publish(ANALYSE_QUEUE, next_msg)
                /\ Goto(w, msg, "published", next_payload)
                /\ UNCHANGED <<redis, failures>>
        /\ UNCHANGED <<unacked, settled, submitted, foreign, dagvars, redis_client, norm, runs, utilvars>>

\* handle_transcriber, lines 70-128: download and transcribe, publish to ANALYSE
transcriber_run(result) ==
    LET w == "transcriber"
        msg == arg[w]
        job_id == msg.job_id
        next_payload == [transcription_path |-> TranscriptionPath(job_id),
                         video_path |-> TempVideoPath(job_id)]
        next_msg == new_job("analyse", next_payload, job_id)
    IN  /\ pc[w] = "transcribe"
        /\ IF result = "None"
           THEN /\ redis' = update_job_state(redis, job_id, FAILED, "transcribe_failed",
                                             [error |-> "Transcricao retornou None"])
                /\ OrRaise(w, msg, Finish(w, msg, "returned"))
                /\ CollaboratorFailed(w, msg, "None")
                /\ UNCHANGED <<queues, calls, files, sent>>
           ELSE /\ files' = DictUpdate(files,
                       [p \in {TranscriptionPath(job_id), TempVideoPath(job_id)} |->
                           IF p.ext = "json" THEN [type |-> "transcript"] ELSE [type |-> "media"]])
                /\ Publish(ANALYSE_QUEUE, next_msg)
                /\ Goto(w, msg, "published", next_payload)
                /\ UNCHANGED <<redis, failures>>
        /\ UNCHANGED <<unacked, settled, submitted, foreign, dagvars, redis_client, norm, runs, utilvars>>

\* handle_transcriber, line 131: the update that follows the publish
transcriber_after_publish ==
    LET w == "transcriber"
    IN  /\ pc[w] = "published"
        /\ redis' = update_job_state(redis, arg[w].job_id, PROCESSING, "analyse", loc[w])
        /\ OrRaise(w, arg[w], Finish(w, arg[w], "returned"))
        /\ UNCHANGED <<queues, unacked, settled, calls, files, submitted, foreign, dagvars, redis_client, norm, runs, utilvars, sent,
                       failures>>

handle_transcriber ==
    \/ \E msg \in calls["transcriber"] : transcriber_start(msg)
    \/ \E result \in TranscriberResults : transcriber_run(result)
    \/ transcriber_after_publish

\* ------------------------------------------------------------------------
\* agents/analyst.py
\* ------------------------------------------------------------------------
Highlight(start, end, summary, score) ==
    [start |-> start, end |-> end, summary |-> summary, score |-> score]

\* what the Gemini call of AnalystAgent.run can come back with:
\*   no_context      no chunk was retrieved, the LLM is not called
\*   raises          generate_content raises
\*   safety          the reply was stopped (SAFETY, MAX_TOKENS): response.text raises
\*   invalid_json    json.loads of the reply raises
\*   schema_invalid  AnalystOutput(**result_json) raises ValidationError
\*   valid           a reply matching AnalystOutput, with its highlights
LLMReplies ==
    {[kind |-> k, highlights |-> <<>>] :
        k \in {"no_context", "raises", "safety", "invalid_json", "schema_invalid", "valid"}}
    \cup {[kind |-> "valid", highlights |-> <<Highlight(30, 75, "best", 90)>>],
          [kind |-> "valid", highlights |-> <<Highlight(75, 30, "reversed", 80)>>]}

FallbackHighlight(text) ==
    [highlight_inicio_segundos |-> 0, highlight_fim_segundos |-> 60, resposta_bruta |-> text]

\* AnalystAgent.run, lines 335-420: the dict it returns for a reply
AnalystAgent_run(reply) ==
    IF reply.kind = "no_context"
    THEN FallbackHighlight("Fallback: transcricao vazia ou sem conteudo recuperavel.")
    ELSE IF reply.kind = "valid"
    THEN IF reply.highlights = <<>>
         THEN FallbackHighlight("Fallback: LLM nao retornou highlights validos.")
         ELSE LET best_highlight == reply.highlights[1]
              IN  [highlight_inicio_segundos |-> best_highlight.start,
                   highlight_fim_segundos |-> best_highlight.end,
                   resposta_bruta |-> best_highlight.summary]
    ELSE FallbackHighlight("Fallback: Erro na analise inteligente.")

\* the replies that are no usable answer: the call raised, was stopped, is no
\* JSON, does not match the schema, or lists no highlight
LLMFailed(reply) ==
    \/ reply.kind \in {"raises", "safety", "invalid_json", "schema_invalid"}
    \/ reply.kind = "valid" /\ reply.highlights = <<>>

LLMFailure(reply) == IF reply.kind = "valid" THEN "empty" ELSE reply.kind

\* executar_agente_analista: raises when the transcript cannot be loaded or
\* indexed (embedding error); otherwise writes what run returned to
\* output_json and returns it
AnalystCalls == {[raised |-> TRUE]} \cup {[raised |-> FALSE, reply |-> r] : r \in LLMReplies}

executar_agente_analista(call) ==
    IF call.raised
    THEN [raised |-> TRUE]
    ELSE [raised |-> FALSE, is_none |-> FALSE, resultado |-> AnalystAgent_run(call.reply)]

\* ------------------------------------------------------------------------
\* workers/analyst_worker.py
\* ------------------------------------------------------------------------
max_attempts == 3

\* message["job_id"], message["payload"], payload["transcription_path"],
\* payload["video_path"]: a missing key raises KeyError
AnalystKeyError(msg) ==
    \/ "job_id" \notin DOMAIN msg
    \/ "payload" \notin DOMAIN msg
    \/ "transcription_path" \notin DOMAIN msg.payload
    \/ "video_path" \notin DOMAIN msg.payload

\* handle_analyst, lines 36-55
analyst_start(msg) ==
    LET w == "analyst"
    IN  /\ Called(w, msg)
        /\ IF AnalystKeyError(msg)
           THEN /\ Finish(w, msg, "raised")
                /\ UNCHANGED redis
           ELSE /\ redis' = update_job_state(redis, msg.job_id, PROCESSING, "analyse",
                                [transcription_path |-> msg.payload.transcription_path])
                /\ OrRaise(w, msg, Goto(w, msg, "wait",
                        [transcription_path |-> msg.payload.transcription_path, attempt |-> 0]))
        /\ UNCHANGED <<queues, unacked, settled, files, submitted, foreign, dagvars, redis_client, norm, runs, utilvars, sent, failures>>

\* handle_analyst, lines 56-59: one more second for the transcript to appear
analyst_sleep ==
    LET w == "analyst"
    IN  /\ pc[w] = "wait"
        /\ loc[w].attempt < max_attempts
        /\ loc[w].transcription_path \notin DOMAIN files
        /\ loc' = [loc EXCEPT ![w].attempt = @ + 1]
        /\ UNCHANGED <<redis, queues, unacked, settled, calls, pc, arg, handled, files,
                       submitted, foreign, dagvars, redis_client, norm, runs, utilvars, sent, failures>>

\* os.walk("/app/data/jobs"): the files of that tree with the same name
FoundByName(path) ==
    {p \in DOMAIN files : IsPrefix(JobsRoot, p.dir) /\ p.base = path.base /\ p.ext = path.ext}

\* handle_analyst, lines 61-87: the transcript, or a file of the same name
\* under /app/data/jobs, or the job FAILED
analyst_locate ==
    LET w == "analyst"
        msg == arg[w]
        path == loc[w].transcription_path
    IN  /\ pc[w] = "wait"
        /\ ~ (loc[w].attempt < max_attempts /\ path \notin DOMAIN files)
        /\ IF path \in DOMAIN files
           THEN /\ Goto(w, msg, "analyse", loc[w])
                /\ UNCHANGED redis
           ELSE IF FoundByName(path) # {}
           THEN /\ \E found \in FoundByName(path) :
                       Goto(w, msg, "analyse", [loc[w] EXCEPT !.transcription_path = found])
                /\ UNCHANGED redis
           ELSE /\ redis' = update_job_state(redis, msg.job_id, FAILED,
                                "analyse_missing_transcription",
                                [error |-> "transcription file missing", path |-> path])
                /\ OrRaise(w, msg, Finish(w, msg, "returned"))
        /\ UNCHANGED <<queues, unacked, settled, calls, files, submitted, foreign, dagvars, redis_client, norm, runs, utilvars, sent,
                       failures>>

\* highlight_path: <dirname(dirname(transcription_path))>/analysis/<job_id>.json
HighlightPath(transcription_path, job_id) ==
    Path(Append(DirName(transcription_path.dir), "analysis"), job_id, "json")

\* handle_analyst, lines 89-122: run the agent, publish to EDIT
analyst_run(call) ==
    LET w == "analyst"
        msg == arg[w]
        job_id == msg.job_id
        highlight_path == HighlightPath(loc[w].transcription_path, job_id)
        highlight == executar_agente_analista(call)
        next_payload == [highlight_path |-> highlight_path,
                         video_path |-> msg.payload.video_path]
        next_msg == new_job("edit", next_payload, job_id)
    IN  /\ pc[w] = "analyse"
        /\ IF highlight.raised
           THEN /\ Finish(w, msg, "raised")
                /\ CollaboratorFailed(w, msg, "agent_raised")
                /\ UNCHANGED <<redis, queues, calls, files, sent>>
           ELSE IF highlight.is_none
           THEN /\ redis' = update_job_state(redis, job_id, FAILED, "analyse_failed", EmptyDict)
                /\ OrRaise(w, msg, Finish(w, msg, "returned"))
                /\ CollaboratorFailed(w, msg, "None")
                /\ UNCHANGED <<queues, calls, files, sent>>
           ELSE /\ files' = DictUpdate(files,
                       [p \in {highlight_path} |->
                           [type |-> "json", data |-> JsonDict(highlight.resultado)]])
                /\ Publish(EDIT_QUEUE, next_msg)
                /\ Goto(w, msg, "published", next_payload)
                /\ IF LLMFailed(call.reply)
                   THEN CollaboratorFailed(w, msg, LLMFailure(call.reply))
                   ELSE UNCHANGED failures
                /\ UNCHANGED redis
        /\ UNCHANGED <<unacked, settled, submitted, foreign, dagvars, redis_client, norm, runs, utilvars>>

\* handle_analyst, line 126: the update that follows the publish
analyst_after_publish ==
    LET w == "analyst"
    IN  /\ pc[w] = "published"
        /\ redis' = update_job_state(redis, arg[w].job_id, PROCESSING, "edit", loc[w])
        /\ OrRaise(w, arg[w], Finish(w, arg[w], "returned"))
        /\ UNCHANGED <<queues, unacked, settled, calls, files, submitted, foreign, dagvars, redis_client, norm, runs, utilvars, sent,
                       failures>>

handle_analyst ==
    \/ \E msg \in calls["analyst"] : analyst_start(msg)
    \/ analyst_sleep
    \/ analyst_locate
    \/ \E call \in AnalystCalls : analyst_run(call)
    \/ analyst_after_publish

\* ------------------------------------------------------------------------
\* agents/editor.py
\* ------------------------------------------------------------------------
\* f"{idx:02d}"
Pad2(i) == IF i < 100 THEN Digit(i \div 10) \o Digit(i % 10) ELSE Pad3(i)

\* highlight.get(k1, highlight.get(k2, default))
HGet(h, k1, k2, default) ==
    IF k1 \in DOMAIN h THEN h[k1] ELSE IF k2 \in DOMAIN h THEN h[k2] ELSE default

\* dados.get(k1) or dados.get(k2, default): a missing or falsy value of k1
\* gives way to k2; the falsy value of a summary is "", of a score 0, which
\* are the defaults
GetOr(dados, k1, k2, default) ==
    IF k1 \in DOMAIN dados /\ dados[k1] # default
    THEN dados[k1]
    ELSE IF k2 \in DOMAIN dados THEN dados[k2] ELSE default

\* _normalize_highlights: the list under "highlights", the list itself, or
\* the one highlight of a dict with start and end; ValueError otherwise.
\* float() of a JSON number is that number
normalize_highlights(dados) ==
    IF dados.is = "dict" /\ "highlights" \in DOMAIN dados.val
    THEN [raised |-> FALSE, highlights |-> dados.val.highlights]
    ELSE IF dados.is = "list"
    THEN [raised |-> FALSE, highlights |-> dados.val]
    ELSE LET d == dados.val
             has_start == {"start", "highlight_inicio_segundos", "inicio"} \cap DOMAIN d # {}
             has_end == {"end", "highlight_fim_segundos", "fim"} \cap DOMAIN d # {}
             start == IF "start" \in DOMAIN d THEN d.start
                      ELSE HGet(d, "highlight_inicio_segundos", "inicio", 0)
             end == IF "end" \in DOMAIN d THEN d.end
                    ELSE HGet(d, "highlight_fim_segundos", "fim", 0)
             summary == IF "summary" \in DOMAIN d /\ d.summary # "" THEN d.summary
                        ELSE GetOr(d, "resumo", "resposta_bruta", "")
         IN  IF ~ has_start \/ ~ has_end
             THEN [raised |-> TRUE, highlights |-> <<>>]
             ELSE [raised |-> FALSE,
                   highlights |-> <<Highlight(start, end, summary,
                                              GetOr(d, "score", "pontuacao", 0))>>]

\* clip_NN_inicio_<S>s_duracao_<D>s_with_subs.mp4 under output_dir
ClipPath(output_dir, idx, inicio, fim) ==
    Path(output_dir,
         "clip_" \o Pad2(idx) \o "_inicio_" \o ToString(inicio) \o "s_duracao_"
             \o ToString(fim - inicio) \o "s_with_subs",
         "mp4")

\* the loop of executar_agente_editor from highlight idx on: a highlight with
\* inicio >= fim is skipped, one whose cut fails is skipped, the others give
\* a clip each; cuts[idx] tells whether ffmpeg succeeds on highlight idx
RECURSIVE generated_clips(_, _, _, _)
generated_clips(highlights, cuts, idx, output_dir) ==
    IF idx > Len(highlights)
    THEN <<>>
    ELSE LET inicio == HGet(highlights[idx], "start", "inicio", 0)
             fim == HGet(highlights[idx], "end", "fim", 0)
         IN  (IF inicio >= fim \/ ~ cuts[idx]
              THEN <<>>
              ELSE <<ClipPath(output_dir, idx, inicio, fim)>>)
             \o generated_clips(highlights, cuts, idx + 1, output_dir)

\* executar_agente_editor on {"highlights": [...]}: raises when the list is
\* empty or no clip was generated; one clip comes back as a str, more as a list
executar_agente_editor(dados, cuts, output_dir) ==
    LET highlights == dados.highlights
        clips == generated_clips(highlights, cuts, 1, output_dir)
    IN  IF highlights = <<>> \/ clips = <<>>
        THEN [raised |-> TRUE, clips |-> <<>>]
        ELSE [raised |-> FALSE, clips |-> clips]

\* ------------------------------------------------------------------------
\* workers/editor_worker.py
\* ------------------------------------------------------------------------
EditorKeyError(msg) ==
    \/ "job_id" \notin DOMAIN msg
    \/ "payload" \notin DOMAIN msg
    \/ "highlight_path" \notin DOMAIN msg.payload
    \/ "video_path" \notin DOMAIN msg.payload

\* handle_editor, lines 37-51
editor_start(msg) ==
    LET w == "editor"
    IN  /\ Called(w, msg)
        /\ IF EditorKeyError(msg)
           THEN /\ Finish(w, msg, "raised")
                /\ UNCHANGED redis
           ELSE /\ redis' = update_job_state(redis, msg.job_id, PROCESSING, "edit",
                                [highlight_path |-> msg.payload.highlight_path])
                /\ OrRaise(w, msg, Goto(w, msg, "edit", EmptyDict))
        /\ UNCHANGED <<queues, unacked, settled, files, submitted, foreign, dagvars, redis_client, norm, runs, utilvars, sent, failures>>

\* handle_editor, lines 89-103: the three shapes of the highlights file
EditorConvertible(highlight_data) ==
    \/ highlight_data.is = "list"
    \/ highlight_data.is = "dict" /\ "highlights" \in DOMAIN highlight_data.val
    \/ highlight_data.is = "dict"
         /\ {"highlight_inicio_segundos", "highlight_fim_segundos"} \subseteq DOMAIN highlight_data.val

EditorConverted(highlight_data) ==
    IF highlight_data.is = "dict" /\ "highlights" \in DOMAIN highlight_data.val
    THEN highlight_data.val
    ELSE IF highlight_data.is = "list"
    THEN [highlights |-> highlight_data.val]
    ELSE [highlights |->
            <<Highlight(highlight_data.val.highlight_inicio_segundos,
                        highlight_data.val.highlight_fim_segundos,
                        IF "resposta_bruta" \in DOMAIN highlight_data.val
                        THEN highlight_data.val.resposta_bruta ELSE "",
                        0)>>]

EditorOutputDir(job_id) == JobsRoot \o <<job_id, "highlights">>

\* the highlights the editor agent will be given, when the file can be read
EditorHighlights(msg) ==
    LET highlight_path == msg.payload.highlight_path
    IN  IF highlight_path \in DOMAIN files /\ files[highlight_path].type = "json"
           /\ EditorConvertible(files[highlight_path].data)
        THEN EditorConverted(files[highlight_path].data).highlights
        ELSE <<>>

\* line 54: the path the final video was planned at, which no step writes
OutputVideoPath(job_id) == Path(EditorOutputDir(job_id), job_id \o "_highlight", "mp4")

\* the planned path reported instead of the clip
FinalVideoPathPlanned(result_path, output_video_path) == output_video_path

\* lines 168-172: the final_video_path of the completed payload
FinalVideoPath(result_path, output_video_path) == result_path

\* handle_editor, lines 53-182: wait for the video, convert the highlights
\* file, run the editor agent, publish to COMPLETED
editor_run(cuts) ==
    LET w == "editor"
        msg == arg[w]
        job_id == msg.job_id
        highlight_path == msg.payload.highlight_path
        video_path == msg.payload.video_path
        output_dir == EditorOutputDir(job_id)
        converted_highlight_path == Path(output_dir, "highlight", "json")
        readable == highlight_path \in DOMAIN files /\ files[highlight_path].type = "json"
        converted == EditorConverted(files[highlight_path].data)
        result == executar_agente_editor(converted, cuts, output_dir)
        result_path == result.clips[1]
        completed_payload == [final_video_path |->
                                  FinalVideoPath(result_path, OutputVideoPath(job_id)),
                              original_video_path |-> video_path,
                              highlight_json_path |-> highlight_path]
        completed_msg == new_job("completed", completed_payload, job_id)
    IN  /\ pc[w] = "edit"
        /\ IF video_path \notin DOMAIN files
           THEN /\ redis' = update_job_state(redis, job_id, FAILED, "edit_missing_input", EmptyDict)
                /\ OrRaise(w, msg, Finish(w, msg, "returned"))
                /\ UNCHANGED <<queues, calls, files, sent, failures>>
           ELSE IF ~ readable \/ ~ EditorConvertible(files[highlight_path].data)
           THEN /\ redis' = update_job_state(redis, job_id, FAILED, "edit_critical_error", EmptyDict)
                /\ OrRaise(w, msg, Finish(w, msg, "returned"))
                /\ UNCHANGED <<queues, calls, files, sent, failures>>
           ELSE IF result.raised
           THEN /\ files' = DictUpdate(files,
                       [p \in {converted_highlight_path} |->
                           [type |-> "json", data |-> JsonDict(converted)]])
                /\ redis' = update_job_state(redis, job_id, FAILED, "edit_critical_error", EmptyDict)
                /\ OrRaise(w, msg, Finish(w, msg, "returned"))
                /\ CollaboratorFailed(w, msg, "no_clip")
                /\ UNCHANGED <<queues, calls, sent>>
           ELSE /\ files' = DictUpdate(files,
                       [p \in {converted_highlight_path} \cup {result.clips[i] : i \in DOMAIN result.clips} |->
                           IF p = converted_highlight_path
                           THEN [type |-> "json", data |-> JsonDict(converted)]
                           ELSE [type |-> "media"]])
                /\ Publish(COMPLETED_QUEUE, completed_msg)
                /\ Goto(w, msg, "published", completed_payload)
                /\ UNCHANGED <<redis, failures>>
        /\ UNCHANGED <<unacked, settled, submitted, foreign, dagvars, redis_client, norm, runs, utilvars>>

\* handle_editor, line 186: the update that follows the publish
editor_after_publish ==
    LET w == "editor"
    IN  /\ pc[w] = "published"
        /\ redis' = update_job_state(redis, arg[w].job_id, COMPLETED, "completed", loc[w])
        /\ OrRaise(w, arg[w], Finish(w, arg[w], "returned"))
        /\ UNCHANGED <<queues, unacked, settled, calls, files, submitted, foreign, dagvars, redis_client, norm, runs, utilvars, sent,
                       failures>>

handle_editor ==
    \/ \E msg \in calls["editor"] : editor_start(msg)
    \/ \E cuts \in [1 .. (IF pc["editor"] = "edit" /\ ~ EditorKeyError(arg["editor"])
                           THEN Len(EditorHighlights(arg["editor"])) ELSE 0) -> BOOLEAN] :
          editor_run(cuts)
    \/ editor_after_publish

\* the shapes a highlights JSON comes in: {"highlights": [...]}, a bare list,
\* one dict with start and end, one dict with highlight_inicio_segundos and
\* highlight_fim_segundos
HighlightShapes == {"wrapped", "list", "start_end", "inicio_fim"}

InputHighlights ==
    {Highlight(10, end, summary, score) :
        end \in {5, 40}, summary \in {"", "first"}, score \in {0, 80}}

InputLists == UNION {[1 .. n -> InputHighlights] : n \in 1 .. MaxInputHighlights}

Shaped(highlights, shape) ==
    CASE shape = "wrapped" -> JsonDict([highlights |-> highlights])
      [] shape = "list" -> JsonList(highlights)
      [] shape = "start_end" -> JsonDict(highlights[1])
      [] shape = "inicio_fim" ->
            JsonDict([highlight_inicio_segundos |-> highlights[1].start,
                      highlight_fim_segundos |-> highlights[1].end,
                      summary |-> highlights[1].summary,
                      score |-> highlights[1].score])

\* a JSON of each shape for each list; a single dict describes one highlight
HighlightInputs ==
    {[dados |-> Shaped(highlights, shape), highlights |-> highlights, out |-> EmptyDict] :
        <<highlights, shape>> \in
            {x \in InputLists \X HighlightShapes :
                x[2] \in {"start_end", "inicio_fim"} => Len(x[1]) = 1}}

InitNormalize ==
    /\ InitPipeline
    /\ chunker = Uncalled
    /\ clipper = Uncalled
    /\ connection = Uncalled
    /\ norm \in HighlightInputs

\* the editor agent's _normalize_highlights and the editor worker's conversion
\* (editor_worker.py 89-103), each applied to the JSON read
normalize ==
    /\ norm # Unread
    /\ norm.out = EmptyDict
    /\ norm' = [norm EXCEPT !.out =
                    [agent |-> normalize_highlights(norm.dados),
                     worker |-> IF EditorConvertible(norm.dados)
                                THEN [raised |-> FALSE,
                                      highlights |-> EditorConverted(norm.dados).highlights]
                                ELSE [raised |-> TRUE, highlights |-> <<>>]]]
    /\ UNCHANGED <<redis, queues, unacked, settled, calls, pc, arg, loc, handled, files,
                   submitted, foreign, sent, failures, dagvars, redis_client, runs, utilvars>>

NextNormalize == normalize

SpecNormalize == InitNormalize /\ [][NextNormalize]_vars

\* ------------------------------------------------------------------------
\* agents/collector_streams.py
\* ------------------------------------------------------------------------
SegmentsDir(job_id) == JobsRoot \o <<job_id, "segments">>

\* segment_%03d.mp4, as ffmpeg numbers the files: sorted(os.listdir(...))
SegmentPaths(output_dir, n) == [i \in 1 .. n |-> Path(output_dir, "segment_" \o Pad3(i - 1), "mp4")]

\* executar_agente_coletor: None when ffmpeg fails or leaves no segment (every
\* exception is caught), otherwise status "sucesso" with the sorted segments
executar_agente_coletor(ffmpeg_ok, n, output_dir) ==
    IF ~ ffmpeg_ok \/ n = 0
    THEN [is_none |-> TRUE]
    ELSE [is_none |-> FALSE, status |-> "sucesso", output_dir |-> output_dir,
          segment_count |-> n, segment_paths |-> SegmentPaths(output_dir, n)]

\* ------------------------------------------------------------------------
\* workers/collector_worker.py
\* ------------------------------------------------------------------------
\* f"{job_id}_seg{idx}": the index without its padding
SegmentJobIdUnpadded(job_id, idx) == job_id \o "_seg" \o ToString(idx)

\* f"{job_id}_seg{idx:03d}"
SegmentJobId(job_id, idx) == job_id \o "_seg" \o Pad3(idx)

\* handle_collector, lines 39-68
collector_start(msg) ==
    LET w == "collector"
        payload == GetPayload(msg)
    IN  /\ Called(w, msg)
        /\ IF Falsy(msg, "job_id")
           THEN /\ Finish(w, msg, "returned")
                /\ UNCHANGED redis
           ELSE IF Falsy(payload, "stream_url")
           THEN /\ redis' = update_job_state(redis, msg.job_id, FAILED, "collect_invalid_url",
                                             [error |-> "URL do stream nao fornecida"])
                /\ OrRaise(w, msg, Finish(w, msg, "returned"))
           ELSE /\ redis' = update_job_state(redis, msg.job_id, PROCESSING, "collect",
                                             [stream_url |-> payload.stream_url])
                /\ OrRaise(w, msg, Goto(w, msg, "collect", EmptyDict))
        /\ UNCHANGED <<queues, unacked, settled, files, submitted, foreign, dagvars, redis_client, norm, runs, utilvars, sent, failures>>

\* handle_collector, lines 70-124: capture the stream; no result, no segment
\* or the list of segments to fan out
collector_run(ffmpeg_ok, n) ==
    LET w == "collector"
        msg == arg[w]
        job_id == msg.job_id
        output_dir == SegmentsDir(job_id)
        result == executar_agente_coletor(ffmpeg_ok, n, output_dir)
    IN  /\ pc[w] = "collect"
        /\ IF result.is_none \/ result.status # "sucesso"
           THEN /\ redis' = update_job_state(redis, job_id, FAILED, "collect_failed",
                                [error |-> "Coleta retornou None ou falhou"])
                /\ OrRaise(w, msg, Finish(w, msg, "returned"))
                /\ CollaboratorFailed(w, msg, IF ffmpeg_ok THEN "no_segments" ELSE "None")
                /\ UNCHANGED files
           ELSE IF result.segment_paths = <<>>
           THEN /\ redis' = update_job_state(redis, job_id, FAILED, "collect_no_segments",
                                [error |-> "Nenhum segmento gerado"])
                /\ OrRaise(w, msg, Finish(w, msg, "returned"))
                /\ UNCHANGED <<files, failures>>
           ELSE /\ files' = DictUpdate(files,
                       [p \in {result.segment_paths[i] : i \in 1 .. n} |-> [type |-> "media"]])
                /\ redis' = update_job_state(redis, job_id, PROCESSING,
                                "collect_publishing_segments",
                                [segment_count |-> Len(result.segment_paths)])
                /\ OrRaise(w, msg, Goto(w, msg, "segment_init",
                        [segment_paths |-> result.segment_paths, idx |-> 0]))
                /\ UNCHANGED failures
        /\ UNCHANGED <<queues, unacked, settled, calls, submitted, foreign, dagvars, redis_client, norm, runs, utilvars, sent>>

\* the metadata of segment idx (0-based), lines 129-134 and 144-149
SegmentMeta(job_id, segment_paths, idx) ==
    [segment_path |-> segment_paths[idx + 1], segment_index |-> idx,
     total_segments |-> Len(segment_paths), parent_job_id |-> job_id]

\* handle_collector, line 141: the child's record
collector_segment_init ==
    LET w == "collector"
        msg == arg[w]
    IN  /\ pc[w] = "segment_init"
        /\ redis' = initialize_job(redis, SegmentJobId(msg.job_id, loc[w].idx),
                                   msg.payload.stream_url)
        /\ OrRaise(w, msg, Goto(w, msg, "segment_update", loc[w]))
        /\ UNCHANGED <<queues, unacked, settled, calls, files, submitted,
                       foreign, dagvars, redis_client, norm, runs, utilvars, sent, failures>>

\* handle_collector, lines 144-149: the child's metadata
collector_segment_update ==
    LET w == "collector"
        msg == arg[w]
    IN  /\ pc[w] = "segment_update"
        /\ redis' = update_job_state(redis, SegmentJobId(msg.job_id, loc[w].idx), PENDING,
                        "transcribe", SegmentMeta(msg.job_id, loc[w].segment_paths, loc[w].idx))
        /\ OrRaise(w, msg, Goto(w, msg, "segment_publish", loc[w]))
        /\ UNCHANGED <<queues, unacked, settled, calls, files, submitted,
                       foreign, dagvars, redis_client, norm, runs, utilvars, sent, failures>>

\* the TRANSCRIBE envelope of segment idx, lines 152-156
SegmentMessage(job_id, segment_paths, idx) ==
    new_job("transcribe", SegmentMeta(job_id, segment_paths, idx), SegmentJobId(job_id, idx))

\* handle_collector, line 159: publish the child, go on with the next segment
collector_segment_publish ==
    LET w == "collector"
        msg == arg[w]
        transcribe_msg == SegmentMessage(msg.job_id, loc[w].segment_paths, loc[w].idx)
    IN  /\ pc[w] = "segment_publish"
        /\ Publish(TRANSCRIBE_QUEUE, transcribe_msg)
        /\ pc' = [pc EXCEPT ![w] =
                    IF loc[w].idx + 1 < Len(loc[w].segment_paths)
                    THEN "segment_init" ELSE "segments_published"]
        /\ loc' = [loc EXCEPT ![w].idx = @ + 1]
        /\ UNCHANGED <<redis, unacked, settled, arg, handled, files, submitted, foreign, dagvars, redis_client, norm, runs, utilvars,
                       failures>>

\* handle_collector, lines 165-173: the parent's last update
collector_finish ==
    LET w == "collector"
        msg == arg[w]
    IN  /\ pc[w] = "segments_published"
        /\ redis' = update_job_state(redis, msg.job_id, PROCESSING, "transcribe",
                        [segments_published |-> Len(loc[w].segment_paths),
                         output_dir |-> SegmentsDir(msg.job_id)])
        /\ OrRaise(w, msg, Finish(w, msg, "returned"))
        /\ UNCHANGED <<queues, unacked, settled, calls, files, submitted, foreign, dagvars, redis_client, norm, runs, utilvars, sent,
                       failures>>

handle_collector ==
    \/ \E msg \in calls["collector"] : collector_start(msg)
    \/ \E ffmpeg_ok \in BOOLEAN, n \in 0 .. MaxSegments : collector_run(ffmpeg_ok, n)
    \/ collector_segment_init
    \/ collector_segment_update
    \/ collector_segment_publish
    \/ collector_finish

\* handle_collector is given once more an envelope it has handled: a
\* repeated run of the collector for the same parent
handle_collector_again ==
    \E h \in handled :
        /\ h.worker = "collector"
        /\ pc["collector"] = "idle"
        /\ h.msg \notin calls["collector"]
        /\ Len(sent) <= MaxSegments + MaxJobs
        /\ calls' = [calls EXCEPT !["collector"] = @ \cup {h.msg}]
        /\ UNCHANGED <<redis, queues, unacked, settled, pc, arg, loc, handled, files, submitted,
                       foreign, sent, failures, dagvars, redis_client, norm, runs, utilvars>>

\* ------------------------------------------------------------------------
\* core/config.py, core/graph.py: the files of one video
\* ------------------------------------------------------------------------
\* ROOT_DIR / "data", an absolute path
DATA_DIR == <<"app", "data">>

\* Path.is_absolute: the paths of the model are written from the root /app
is_absolute(p) == Len(p.dir) > 0 /\ p.dir[1] = "app"

get_video_paths(video_id) ==
    LET video_dir == DATA_DIR \o <<"video_" \o ToString(video_id)>>
    IN  [video_path |-> Path(video_dir, "temp_video", "mp4"),
         transcription_path |-> Path(video_dir, "transcription", "json"),
         highlight_json_path |-> Path(video_dir, "highlights", "json"),
         clips_dir |-> video_dir \o <<"clips">>,
         segments_dir |-> video_dir \o <<"segments">>]

StreamUrl == "rtmp://example/live"

\* should_collect_stream, on the two urls of the model
should_collect_stream(url) == url = StreamUrl

\* ------------------------------------------------------------------------
\* models/video.py, core/progress.py
\* ------------------------------------------------------------------------
\* the columns the Video class maps: it maps neither the progress fields nor
\* thumbnail_path
VideoColumns ==
    {"id", "user_id", "url", "title", "status", "task_id", "output_path", "created_at"}

\* db.commit() after assignments to attributes of the instance: the mapped
\* ones reach the row, the others stay on the instance and are lost with it
commit(v, assigned) ==
    DictUpdate(v, [k \in DOMAIN assigned \cap VideoColumns |-> assigned[k]])

ProgressWrite(stage, percentage, message) ==
    [stage |-> stage, percentage |-> percentage, message |-> message]

\* update_progress: assigns the three progress fields of the instance when
\* the query finds the row, and commits
update_progress(v, video_id, write) ==
    IF video_id = v.id
    THEN commit(v, [progress_stage |-> write.stage,
                    progress_percentage |-> write.percentage,
                    progress_message |-> write.message])
    ELSE v

\* the row after a node's successive calls of update_progress
RECURSIVE ApplyProgress(_, _, _)
ApplyProgress(v, video_id, writes) ==
    IF writes = <<>>
    THEN v
    ELSE ApplyProgress(update_progress(v, video_id, Head(writes)), video_id, Tail(writes))

\* the successive progress writes of one step: what they leave in the row, and
\* the percentages they were made with
Progress(video_id, writes) ==
    /\ video' = ApplyProgress(video, video_id, writes)
    /\ progress_writes' = progress_writes \o
           (IF video_id = video.id
            THEN [i \in DOMAIN writes |-> [stage |-> writes[i].stage,
                                            percentage |-> writes[i].percentage]]
            ELSE <<>>)

\* ------------------------------------------------------------------------
\* core/tasks.py: process_video_task up to graph_app.invoke
\* ------------------------------------------------------------------------
\* what the DAG leaves alone: the broker, the KV store and the workers
pipevars_no_runs == <<redis, queues, unacked, settled, calls, pc, arg, loc, handled, submitted,
                      foreign, sent, failures, redis_client, norm, utilvars>>

pipevars == <<pipevars_no_runs, runs>>

\* the ids a task can be started with: 0 is no id, 1 is the row of the video
VideoIds == {0, 1}

\* max_highlights of the request, 1..20 (api/schemas): the ends and two inside
MaxHighlightsChoices == {1, 2, 5, 20}

Urls == {VideoUrl, StreamUrl}

task_start(url, video_id, max_highlights) ==
    /\ dag_pc = "ready"
    /\ Progress(video_id, <<ProgressWrite("Iniciando", 10, "Preparando processamento...")>>)
    /\ state' = [url |-> url, max_highlights |-> max_highlights, video_id |-> video_id]
    /\ dag_pc' = "transcrever"
    /\ UNCHANGED <<pipevars, files, collab_calls>>

\* ------------------------------------------------------------------------
\* utils/chunking.py
\* ------------------------------------------------------------------------
threshold_chars == 20000

should_use_chunking(text_length) == text_length > threshold_chars

\* ------------------------------------------------------------------------
\* core/graph.py: node_transcrever
\* ------------------------------------------------------------------------
\* the lengths of the transcript's text: empty, at the threshold, one above
TextLengths == {0, threshold_chars, threshold_chars + 1}

\* what the transcriber returns: None, or a transcript it wrote to output_json_path
Transcriptions ==
    {[is_none |-> TRUE]} \cup {[is_none |-> FALSE, text_len |-> l] : l \in TextLengths}

CollabCall(node, collaborator) == [node |-> node, collaborator |-> collaborator]

node_transcrever(ffmpeg_ok, n, concat_ok, transcription) ==
    LET video_id == state.video_id
        url == state.url
        paths == get_video_paths(video_id)
        use_collector == should_collect_stream(url)
        collect_result == executar_agente_coletor(ffmpeg_ok, n, paths.segments_dir)
        waypoints == <<ProgressWrite("transcribing", 5, "Baixando video..."),
                       ProgressWrite("transcribing", 20, "Transcrevendo audio...")>>
        segments == IF use_collector /\ ~ collect_result.is_none
                    THEN [p \in {collect_result.segment_paths[i] : i \in 1 .. n} |->
                             [type |-> "media"]]
                    ELSE EmptyDict
        transcript == IF transcription.is_none
                      THEN EmptyDict
                      ELSE [p \in {paths.transcription_path} |->
                               [type |-> "transcript", text_len |-> transcription.text_len]]
        media == [p \in {paths.video_path} |-> [type |-> "media"]]
    IN  /\ dag_pc = "transcrever"
        /\ dag_pc' = "analisar"
        /\ IF video_id = 0
           THEN /\ state' = DictUpdate(state, [error |-> "video_id nao fornecido no state!"])
                /\ UNCHANGED <<video, progress_writes, collab_calls, files>>
           ELSE IF use_collector /\ collect_result.is_none
           THEN /\ Progress(video_id, waypoints)
                /\ collab_calls' = Append(collab_calls, CollabCall("transcrever", "collector"))
                /\ state' = DictUpdate(state, [error |-> "Falha na coleta do stream."])
                /\ UNCHANGED files
           ELSE IF use_collector /\ ~ concat_ok
           THEN /\ Progress(video_id, waypoints)
                /\ collab_calls' = collab_calls \o <<CollabCall("transcrever", "collector"),
                                                     CollabCall("transcrever", "concat")>>
                /\ files' = DictUpdate(files, segments)
                /\ state' = DictUpdate(state, [error |-> "Erro ao concatenar segmentos"])
           ELSE /\ Progress(video_id,
                      Append(waypoints, ProgressWrite("transcribing", 33, "Transcricao concluida")))
                /\ collab_calls' = collab_calls \o
                       (IF use_collector
                        THEN <<CollabCall("transcrever", "collector"),
                               CollabCall("transcrever", "concat")>>
                        ELSE <<>>)
                       \o <<CollabCall("transcrever", "asr")>>
                /\ files' = DictUpdate(DictUpdate(files, segments),
                                       IF transcription.is_none /\ ~ use_collector
                                       THEN EmptyDict
                                       ELSE DictUpdate(media, transcript))
                /\ state' = DictUpdate(state, [video_path |-> paths.video_path,
                                               transcription_path |-> paths.transcription_path])
        /\ UNCHANGED pipevars

\* ------------------------------------------------------------------------
\* core/graph.py: node_analisar
\* ------------------------------------------------------------------------
\* a reply of the LLM with two candidates, the later one first
TwoCandidates ==
    [kind |-> "valid",
     highlights |-> <<Highlight(75, 90, "second", 90), Highlight(10, 40, "first", 80)>>]

\* agent.run(transcription_path): raises when the transcript cannot be
\* indexed, otherwise returns what AnalystAgent.run makes of the LLM's reply
DagAnalystCalls ==
    AnalystCalls \cup {[raised |-> FALSE, reply |-> TwoCandidates]}

\* lines 315-330: the dict of AnalystAgent.run as the editor's list
NormalizedHighlights(highlight_result) ==
    IF "highlights" \in DOMAIN highlight_result
    THEN highlight_result.highlights
    ELSE LET start == HGet(highlight_result, "highlight_inicio_segundos", "start", 0)
             end == HGet(highlight_result, "highlight_fim_segundos", "end", 0)
             summary == IF ~ Falsy(highlight_result, "resposta_bruta")
                        THEN highlight_result.resposta_bruta
                        ELSE IF ~ Falsy(highlight_result, "summary")
                        THEN highlight_result.summary
                        ELSE ""
             score == HGet(highlight_result, "score", "score", 0)
         IN  <<Highlight(start, end, summary, score)>>

\* the call of the analyst as node_analisar makes it: always agent.run on the
\* whole transcript ("processamento direto"), whatever the length of the text
AnalystCall(text_len, call) ==
    [node |-> "analisar", collaborator |-> "llm", path |-> "direct",
     text_len |-> text_len, call |-> call]

node_analisar(agent_ok, call, write_ok) ==
    LET video_id == state.video_id
        waypoint == IF video_id # 0
                    THEN <<ProgressWrite("analyzing", 40, "Analisando transcricao...")>>
                    ELSE <<>>
        transcription_path == state.transcription_path
        text_len == files[transcription_path].text_len
        highlights == NormalizedHighlights(AnalystAgent_run(call.reply))
        highlight_json_path == get_video_paths(video_id).highlight_json_path
    IN  /\ dag_pc = "analisar"
        /\ IF "transcription_path" \notin DOMAIN state
           THEN /\ Progress(video_id, waypoint)
                /\ state' = DictUpdate(state,
                       [error |-> "Transcription path nao encontrado no estado!"])
                /\ dag_pc' = "editar"
                /\ UNCHANGED <<files, collab_calls>>
           ELSE IF transcription_path \notin DOMAIN files
           THEN /\ Progress(video_id,
                      waypoint \o (IF video_id # 0
                                   THEN <<ProgressWrite("analyzing", 0,
                                                        "Erro leitura transcricao")>>
                                   ELSE <<>>))
                /\ state' = DictUpdate(state, [error |-> "Falha ao carregar transcricao"])
                /\ dag_pc' = "editar"
                /\ UNCHANGED <<files, collab_calls>>
           ELSE IF text_len = 0
           THEN /\ Progress(video_id, waypoint)
                /\ state' = DictUpdate(state, [error |-> "Transcricao vazia ou invalida!"])
                /\ dag_pc' = "editar"
                /\ UNCHANGED <<files, collab_calls>>
           ELSE IF ~ agent_ok
           THEN \* AnalystAgent() raises outside any try: the graph run is aborted
                /\ Progress(video_id, waypoint)
                /\ dag_pc' = "raised"
                /\ UNCHANGED <<state, files, collab_calls>>
           ELSE IF call.raised
           THEN /\ Progress(video_id, waypoint)
                /\ collab_calls' = Append(collab_calls, AnalystCall(text_len, call))
                /\ state' = DictUpdate(state, [error |-> "AnalystError"])
                /\ dag_pc' = "editar"
                /\ UNCHANGED files
           ELSE IF ~ write_ok
           THEN /\ Progress(video_id, waypoint)
                /\ collab_calls' = Append(collab_calls, AnalystCall(text_len, call))
                /\ state' = DictUpdate(state, [highlight |-> [highlights |-> highlights],
                                               error |-> "Erro ao salvar highlight JSON"])
                /\ dag_pc' = "editar"
                /\ UNCHANGED files
           ELSE /\ Progress(video_id,
                      waypoint \o (IF video_id # 0
                                   THEN <<ProgressWrite("analyzing", 66, "Analise concluida")>>
                                   ELSE <<>>))
                /\ collab_calls' = Append(collab_calls, AnalystCall(text_len, call))
                /\ state' = DictUpdate(state, [highlight |-> [highlights |-> highlights]])
                /\ files' = DictUpdate(files,
                       [p \in {highlight_json_path} |->
                           [type |-> "json", data |-> JsonDict([highlights |-> highlights])]])
                /\ dag_pc' = "editar"
        /\ UNCHANGED pipevars

\* ------------------------------------------------------------------------
\* core/graph.py: node_editar
\* ------------------------------------------------------------------------
\* normalize_path: an absolute path is kept, a relative one is put under DATA_DIR
normalize_path(p) == IF is_absolute(p) THEN p ELSE [p EXCEPT !.dir = DATA_DIR \o @]

\* the subtitles and the thumbnail written next to the first clip
ClipExtras(first_clip) ==
    {Path(first_clip.dir, first_clip.base, "srt"),
     Path(first_clip.dir, first_clip.base, "vtt"),
     Path(first_clip.dir, first_clip.base \o "_thumb", "jpg")}

\* the highlights the editor would read from the state's highlights file
DagHighlights ==
    LET highlight_json_path == get_video_paths(state.video_id).highlight_json_path
    IN  IF dag_pc = "editar" /\ Falsy(state, "error") /\ highlight_json_path \in DOMAIN files
        THEN files[highlight_json_path].data.val.highlights
        ELSE <<>>

node_editar(cuts, extras_ok) ==
    LET video_id == state.video_id
        waypoint == IF video_id # 0
                    THEN <<ProgressWrite("editing", 70, "Cortando video...")>>
                    ELSE <<>>
        paths == get_video_paths(video_id)
        highlight_json_path == paths.highlight_json_path
        result == executar_agente_editor(files[highlight_json_path].data.val, cuts,
                                         paths.clips_dir)
        clips_paths == [i \in DOMAIN result.clips |-> normalize_path(result.clips[i])]
        \* ffmpeg writes the clips where the editor put them
        written == {result.clips[i] : i \in DOMAIN result.clips}
                      \cup (IF extras_ok THEN ClipExtras(clips_paths[1]) ELSE {})
    IN  /\ dag_pc = "editar"
        /\ dag_pc' = "finish"
        /\ IF ~ Falsy(state, "error")
           THEN /\ Progress(video_id, waypoint)
                /\ UNCHANGED <<state, files, collab_calls>>
           ELSE IF "highlight" \notin DOMAIN state
           THEN /\ Progress(video_id, waypoint)
                /\ state' = DictUpdate(state,
                       [error |-> "Highlight nao gerado na etapa de analise."])
                /\ UNCHANGED <<files, collab_calls>>
           ELSE IF highlight_json_path \notin DOMAIN files
           THEN /\ Progress(video_id, waypoint)
                /\ state' = DictUpdate(state, [error |-> "Arquivo de highlight nao encontrado"])
                /\ UNCHANGED <<files, collab_calls>>
           ELSE IF result.raised
           THEN /\ Progress(video_id, waypoint)
                /\ collab_calls' = Append(collab_calls, CollabCall("editar", "cutter"))
                /\ state' = DictUpdate(state, [error |-> "EditorError"])
                /\ UNCHANGED files
           ELSE /\ Progress(video_id,
                      waypoint \o <<ProgressWrite("editing", 95, "Finalizando...")>>)
                /\ collab_calls' = Append(collab_calls, CollabCall("editar", "cutter"))
                /\ state' = DictUpdate(state, [highlight_path |-> clips_paths[1],
                                               clips_paths |-> clips_paths])
                /\ files' = DictUpdate(files, [p \in written |-> [type |-> "media"]])
        /\ UNCHANGED pipevars

\* ------------------------------------------------------------------------
\* core/tasks.py: process_video_task after graph_app.invoke
\* ------------------------------------------------------------------------
VideoStatus == [PROCESSING |-> "processing", COMPLETED |-> "completed", FAILED |-> "failed"]

\* the graph run raised or ended with an error: the row is FAILED and the task
\* raises (lines 48-56, 149-164). Otherwise lines 59-141 are to make the row
\* COMPLETED with the first clip as its output, but line 114 reads
\* video.thumbnail_path first: on a Video that does not map it the read raises
\* AttributeError, and the handler of line 149 makes the row FAILED
task_finish ==
    LET video_id == state.video_id
        row_found == video_id = video.id
    IN  /\ dag_pc \in {"finish", "raised"}
        /\ IF \/ dag_pc = "raised"
              \/ ~ Falsy(state, "error")
              \/ row_found /\ "thumbnail_path" \notin VideoColumns
           THEN /\ dag_pc' = "failed"
                /\ video' = IF row_found
                            THEN commit(video, [status |-> VideoStatus.FAILED,
                                                progress_message |-> "Erro"])
                            ELSE video
                /\ UNCHANGED progress_writes
           ELSE /\ dag_pc' = "completed"
                /\ video' = IF row_found
                            THEN commit(video,
                                     [status |-> VideoStatus.COMPLETED,
                                      progress_stage |-> "Concluido",
                                      progress_percentage |-> 100,
                                      progress_message |-> "Processamento finalizado!",
                                      output_path |-> IF "highlight_path" \in DOMAIN state
                                                      THEN state.highlight_path
                                                      ELSE ""])
                            ELSE video
                /\ progress_writes' = IF row_found
                                      THEN Append(progress_writes,
                                                  [stage |-> "Concluido", percentage |-> 100])
                                      ELSE progress_writes
        /\ UNCHANGED <<pipevars, state, files, collab_calls>>

process_video_task ==
    \/ \E url \in Urls, video_id \in VideoIds, max_highlights \in MaxHighlightsChoices :
          task_start(url, video_id, max_highlights)
    \/ task_finish

\* graph_app.invoke: transcrever -> analisar -> editar -> END
graph_app ==
    \/ \E ffmpeg_ok \in BOOLEAN, n \in 0 .. MaxSegments, concat_ok \in BOOLEAN,
          transcription \in Transcriptions :
          node_transcrever(ffmpeg_ok, n, concat_ok, transcription)
    \/ \E agent_ok \in BOOLEAN, call \in DagAnalystCalls, write_ok \in BOOLEAN :
          node_analisar(agent_ok, call, write_ok)
    \/ \E cuts \in [1 .. Len(DagHighlights) -> BOOLEAN], extras_ok \in BOOLEAN :
          node_editar(cuts, extras_ok)

\* ------------------------------------------------------------------------
\* graphs/main_graph.py: the graph whose nodes use fixed paths
\* ------------------------------------------------------------------------
MainGraphData == <<"backend", "data">>

MainGraphVideoPath == Path(MainGraphData, "temp_video", "mp4")

MainGraphTranscriptionPath == Path(MainGraphData, "transcricao_temp", "json")

MainGraphHighlightJson == Path(MainGraphData, "highlight", "json")

\* run r wrote the files fs (path -> content) and goes on at l
RunWrites(r, fs, l) ==
    /\ runs' = [runs EXCEPT ![r] = [pc |-> l, written |-> @.written \cup DOMAIN fs]]
    /\ files' = DictUpdate(files, fs)

MediaFiles(paths) == [p \in paths |-> [type |-> "media"]]

\* node_transcrever of main_graph.py, lines 109-173: a stream is collected
\* under backend/data/stream_segments and concatenated; the video and the
\* transcript go to backend/data; without transcription the graph ends
main_graph_transcrever(r, url, ffmpeg_ok, n, concat_ok, result) ==
    LET segments_dir == MainGraphData \o <<"stream_segments">>
        collect_result == executar_agente_coletor(ffmpeg_ok, n, segments_dir)
        segments == IF collect_result.is_none THEN {}
                    ELSE {collect_result.segment_paths[i] : i \in DOMAIN collect_result.segment_paths}
        list_file == Path(MainGraphData, "temp_video.mp4.concat", "txt")
        transcribed == IF result = "ok"
                       THEN [p \in {MainGraphTranscriptionPath} |-> [type |-> "transcript"]]
                       ELSE EmptyDict
        ended == IF result = "ok" THEN "analisar" ELSE "END"
    IN  /\ runs[r].pc = "transcrever"
        /\ IF should_collect_stream(url)
           THEN IF collect_result.is_none \/ collect_result.segment_paths = <<>>
                THEN RunWrites(r, EmptyDict, "END")
                ELSE IF ~ concat_ok
                THEN RunWrites(r, DictUpdate(MediaFiles(segments),
                                             [p \in {list_file} |-> [type |-> "text"]]), "END")
                ELSE RunWrites(r, DictUpdate(DictUpdate(MediaFiles(segments \cup {MainGraphVideoPath}),
                                                        [p \in {list_file} |-> [type |-> "text"]]),
                                             transcribed), ended)
           ELSE RunWrites(r, DictUpdate(IF result = "ok" THEN MediaFiles({MainGraphVideoPath})
                                        ELSE EmptyDict, transcribed), ended)
        /\ UNCHANGED <<pipevars_no_runs, dagvars>>

\* node_analisar of main_graph.py, lines 177-205: whatever the analyst
\* returns is written to backend/data/highlight.json; its exception leaves
\* the graph
main_graph_analisar(r, call) ==
    LET highlight == executar_agente_analista(call)
    IN  /\ runs[r].pc = "analisar"
        /\ IF highlight.raised
           THEN RunWrites(r, EmptyDict, "raised")
           ELSE RunWrites(r, [p \in {MainGraphHighlightJson} |->
                                 [type |-> "json", data |-> JsonDict(highlight.resultado)]],
                          "editar")
        /\ UNCHANGED <<pipevars_no_runs, dagvars>>

\* the highlights the editor reads from backend/data/highlight.json
MainGraphHighlights == normalize_highlights(files[MainGraphHighlightJson].data).highlights

\* node_editar of main_graph.py, lines 209-266: the clips of the highlights
\* file go to backend/data/clips, the subtitles and the thumbnail of the
\* first clip next to it; the editor's exception leaves the graph
main_graph_editar(r, cuts) ==
    LET clips_dir == MainGraphData \o <<"clips">>
        result == executar_agente_editor([highlights |-> MainGraphHighlights], cuts, clips_dir)
    IN  /\ runs[r].pc = "editar"
        /\ IF result.raised
           THEN RunWrites(r, EmptyDict, "raised")
           ELSE RunWrites(r, MediaFiles({result.clips[i] : i \in DOMAIN result.clips}
                                       \cup ClipExtras(result.clips[1])), "END")
        /\ UNCHANGED <<pipevars_no_runs, dagvars>>

\* app.invoke of main_graph.py, by any of the runs
main_graph_app ==
    \E r \in 1 .. MaxRuns :
        \/ \E url \in Urls, ffmpeg_ok \in BOOLEAN, n \in 0 .. MaxSegments, concat_ok \in BOOLEAN,
              result \in TranscriberResults :
              main_graph_transcrever(r, url, ffmpeg_ok, n, concat_ok, result)
        \/ \E call \in AnalystCalls : main_graph_analisar(r, call)
        \/ \E cuts \in [1 .. (IF runs[r].pc = "editar" THEN Len(MainGraphHighlights) ELSE 0)
                          -> BOOLEAN] :
              main_graph_editar(r, cuts)

NextMainGraph == main_graph_app

SpecMainGraph == Init /\ [][NextMainGraph]_vars

\* ------------------------------------------------------------------------
\* utils/chunking.py
\* ------------------------------------------------------------------------
\* the segments of a transcription, each by its start in seconds (the walk
\* reads nothing else of a segment); a chunk holds positions of this list
SegmentLists == UNION {[1 .. n -> 0 .. MaxSeconds] : n \in 0 .. MaxChunkSegments}

\* a call of create_chunks_from_segments on its arguments
ChunkerCalls ==
    {[pc |-> "called", segments |-> segments, chunk_duration_seconds |-> d,
      overlap_seconds |-> o, i |-> 1, chunks |-> <<>>, windows |-> <<>>,
      current_chunk |-> <<>>, chunk_start_time |-> 0, chunk_end_time |-> 0,
      closes |-> <<>>, result |-> <<>>] :
        segments \in SegmentLists, d \in 1 .. MaxWindow, o \in 0 .. MaxWindow}

InitChunking ==
    /\ InitPipeline
    /\ norm = Unread
    /\ chunker \in ChunkerCalls
    /\ clipper = Uncalled
    /\ connection = Uncalled

\* the current chunk is saved even when it is empty
close_chunk_even_empty(chunks, current_chunk) == Append(chunks, current_chunk)

\* lines 70-71 and 92-93: the current chunk is saved unless it is empty
close_chunk(chunks, current_chunk) ==
    IF current_chunk # <<>> THEN Append(chunks, current_chunk) ELSE chunks

\* lines 84-86: the segments of the first chunk, not of the last one
overlap_tail_of_first(chunks, segments, chunk_start_time) ==
    IF chunks = <<>>
    THEN <<>>
    ELSE SelectSeq(chunks[1], LAMBDA prev_seg : segments[prev_seg] >= chunk_start_time)

\* lines 84-86: the segments of chunks[-1] that start in the overlap period
overlap_tail(chunks, segments, chunk_start_time) ==
    IF chunks = <<>>
    THEN <<>>
    ELSE SelectSeq(chunks[Len(chunks)], LAMBDA prev_seg : segments[prev_seg] >= chunk_start_time)

\* lines 48-50: no segments, the empty list is returned
chunks_of_nothing ==
    /\ chunker.pc = "called"
    /\ chunker.segments = <<>>
    /\ chunker' = [chunker EXCEPT !.pc = "returned", !.result = <<>>]
    /\ UNCHANGED <<appvars, clipper, connection>>

\* lines 52-55: the first window is [0, chunk_duration_seconds)
chunks_first_window ==
    /\ chunker.pc = "called"
    /\ chunker.segments # <<>>
    /\ chunker' = [chunker EXCEPT !.pc = "walk", !.chunks = <<>>, !.current_chunk = <<>>,
                                  !.chunk_start_time = 0,
                                  !.chunk_end_time = chunker.chunk_duration_seconds]
    /\ UNCHANGED <<appvars, clipper, connection>>

\* lines 61-89: one turn of the loop, on the next segment
chunks_segment ==
    LET segment == chunker.i
        segment_start == chunker.segments[segment]
        saved == chunker.current_chunk # <<>>
        chunks == close_chunk(chunker.chunks, chunker.current_chunk)
        chunk_start_time == chunker.chunk_end_time - chunker.overlap_seconds
        chunk_end_time == chunk_start_time + chunker.chunk_duration_seconds
        current_chunk == Append(overlap_tail(chunks, chunker.segments, chunk_start_time), segment)
        window == [chunk_start_time |-> chunker.chunk_start_time,
                   chunk_end_time |-> chunker.chunk_end_time]
    IN  /\ chunker.pc = "walk"
        /\ segment <= Len(chunker.segments)
        /\ chunker' =
              IF segment_start < chunker.chunk_end_time
              THEN [chunker EXCEPT !.current_chunk = Append(@, segment), !.i = segment + 1]
              ELSE [chunker EXCEPT
                       !.chunks = chunks,
                       !.windows = IF Len(chunks) > Len(chunker.chunks) THEN Append(@, window) ELSE @,
                       !.chunk_start_time = chunk_start_time,
                       !.chunk_end_time = chunk_end_time,
                       !.current_chunk = current_chunk,
                       !.closes = IF saved
                                  THEN Append(@, [closed |-> chunker.current_chunk,
                                                  older |-> chunker.chunks,
                                                  chunk_start_time |-> chunk_start_time,
                                                  opened |-> current_chunk,
                                                  segment |-> segment])
                                  ELSE @,
                       !.i = segment + 1]
        /\ UNCHANGED <<appvars, clipper, connection>>

\* lines 91-100: the last chunk is saved, the chunks are returned
chunks_return ==
    LET chunks == close_chunk(chunker.chunks, chunker.current_chunk)
    IN  /\ chunker.pc = "walk"
        /\ chunker.i > Len(chunker.segments)
        /\ chunker' = [chunker EXCEPT
                          !.pc = "returned",
                          !.chunks = chunks,
                          !.windows = IF Len(chunks) > Len(chunker.chunks)
                                      THEN Append(@, [chunk_start_time |-> chunker.chunk_start_time,
                                                      chunk_end_time |-> chunker.chunk_end_time])
                                      ELSE @,
                          !.result = chunks]
        /\ UNCHANGED <<appvars, clipper, connection>>

create_chunks_from_segments ==
    \/ chunks_of_nothing
    \/ chunks_first_window
    \/ chunks_segment
    \/ chunks_return

NextChunking == create_chunks_from_segments

SpecChunking == InitChunking /\ [][NextChunking]_vars

\* ------------------------------------------------------------------------
\* core/graph.py: build_clipped_transcription (graphs/main_graph.py 69-89
\* holds the same code)
\* ------------------------------------------------------------------------
\* times are counted in half seconds
Seconds(n) == 2 * n

\* the spans of the segments of a transcription and of a highlight
Spans == {span \in (0 .. MaxSeconds) \X (0 .. MaxSeconds) : span[1] <= span[2]}

\* data["segments"]: the text of a segment is given by its place in the list
ClipSegmentLists ==
    UNION {{[i \in 1 .. n |-> [start |-> Seconds(spans[i][1]), end |-> Seconds(spans[i][2]),
                               text |-> i]] :
               spans \in [1 .. n -> Spans]} : n \in 0 .. MaxClipSegments}

\* a call of build_clipped_transcription on the range of a highlight
ClipperCalls ==
    {[pc |-> "called", segments |-> segments, start |-> Seconds(span[1]),
      end |-> Seconds(span[2]), result |-> <<>>] :
        segments \in ClipSegmentLists, span \in Spans}

InitClipping ==
    /\ InitPipeline
    /\ norm = Unread
    /\ chunker = Uncalled
    /\ clipper \in ClipperCalls
    /\ connection = Uncalled

\* the end is kept as it is
clipped_end_kept(new_start, new_end) == new_end

\* line 85: new_end if new_end > new_start else new_start + 0.5
clipped_end(new_start, new_end) == IF new_end > new_start THEN new_end ELSE new_start + 1

\* lines 75-87: the loop over the segments
RECURSIVE clipped(_, _, _)
clipped(segments, start, end) ==
    IF segments = <<>>
    THEN <<>>
    ELSE LET seg == Head(segments)
             seg_start == seg.start
             seg_end == seg.end
             new_start == (IF seg_start > start THEN seg_start ELSE start) - start
             new_end == (IF seg_end < end THEN seg_end ELSE end) - start
         IN  IF seg_end < start \/ seg_start > end
             THEN clipped(Tail(segments), start, end)
             ELSE <<[start |-> new_start, end |-> clipped_end(new_start, new_end),
                     text |-> seg.text]>> \o clipped(Tail(segments), start, end)

build_clipped_transcription ==
    /\ clipper.pc = "called"
    /\ clipper' = [clipper EXCEPT !.pc = "returned",
                                  !.result = clipped(clipper.segments, clipper.start, clipper.end)]
    /\ UNCHANGED <<appvars, chunker, connection>>

NextClipping == build_clipped_transcription

SpecClipping == InitClipping /\ [][NextClipping]_vars

\* ------------------------------------------------------------------------
\* services/messaging_rabbit.py: get_connection, called by each worker
\* process when it starts (declare_infraestructure, consume)
\* ------------------------------------------------------------------------
max_retries == 10

retry_delay == 5  \* seconds

\* what pika.BlockingConnection(params) does at an attempt
ConnectionOutcomes == {"connected", "AMQPConnectionError"}

\* the call of a worker process, before its first attempt
Connecting == [pc |-> "try", attempt |-> 0, outcomes |-> <<>>, waits |-> <<>>]

InitConnecting ==
    /\ InitPipeline
    /\ norm = Unread
    /\ chunker = Uncalled
    /\ clipper = Uncalled
    /\ connection = [w \in Workers |-> Connecting]

\* every failed attempt is followed by a wait
retry_sleeps_always(attempt) == TRUE

\* line 78: the wait follows a failed attempt unless it was the last one
retry_sleeps(attempt) == attempt < max_retries - 1

\* lines 64-83: one turn of the loop of worker w's call; a loop that ran out
\* of turns would return None
get_connection(w, outcome) ==
    LET c == connection[w]
        tried == [c EXCEPT !.outcomes = Append(@, outcome)]
    IN  /\ connection # Uncalled
        /\ c.pc = "try"
        /\ connection' = [connection EXCEPT ![w] =
              IF outcome = "connected"
              THEN [tried EXCEPT !.pc = "returned"]
              ELSE IF retry_sleeps(c.attempt)
              THEN [tried EXCEPT !.waits = Append(@, retry_delay),
                                 !.attempt = @ + 1,
                                 !.pc = IF c.attempt + 1 < max_retries THEN "try" ELSE "None"]
              ELSE [tried EXCEPT !.pc = "raised"]]
        /\ UNCHANGED <<appvars, chunker, clipper>>

NextConnecting == \E w \in Workers, outcome \in ConnectionOutcomes : get_connection(w, outcome)

SpecConnecting == InitConnecting /\ [][NextConnecting]_vars

Next ==
    \/ process_video
    \/ process_stream
    \/ \E q \in DlqArgsQueues :
          \E body \in {Garbage} \cup {json_dumps(m) : m \in ForeignEnvelopes(q)} :
             ForeignPublish(q, body)
    \/ \E w \in Workers : Deliver(w)
    \/ \E w \in Workers : Callback(w)
    \/ handle_transcriber
    \/ handle_analyst
    \/ handle_editor
    \/ handle_collector

Spec == Init /\ [][Next]_vars

\* the pipeline fed by the launcher alone: every envelope is one a stage published
NextPipeline ==
    \/ process_video
    \/ process_stream
    \/ \E w \in Workers : Deliver(w)
    \/ \E w \in Workers : Callback(w)
    \/ handle_transcriber
    \/ \E msg \in calls["analyst"] : analyst_start(msg)
    \/ analyst_locate
    \/ \E call \in AnalystCalls : analyst_run(call)
    \/ analyst_after_publish
    \/ handle_editor
    \/ handle_collector

SpecPipeline == Init /\ [][NextPipeline]_vars

\* the stream branch up to the transcriber's reading of the segment envelopes
NextStream ==
    \/ process_stream
    \/ \E w \in {"collector", "transcriber"} : Deliver(w)
    \/ \E w \in {"collector", "transcriber"} : Callback(w)
    \/ handle_collector
    \/ \E msg \in calls["transcriber"] : transcriber_start(msg)

SpecStream == Init /\ [][NextStream]_vars

\* a stream fanned out to two transcriber workers competing for the queue
NextCompeting ==
    \/ process_stream
    \/ handle_collector
    \/ \E w \in {"collector", "transcriber", "transcriber_2"} : Deliver(w)
    \/ \E w \in {"collector", "transcriber", "transcriber_2"} : Callback(w)

SpecCompeting == Init /\ [][NextCompeting]_vars

\* the broker and the consumers alone: what consume does with each body
NextConsume ==
    \/ process_video
    \/ process_stream
    \/ \E q \in DlqArgsQueues :
          \E body \in {Garbage} \cup {json_dumps(m) : m \in ForeignEnvelopes(q)} :
             ForeignPublish(q, body)
    \/ \E w \in Workers : Deliver(w)
    \/ \E w \in Workers : Callback(w)

SpecConsume == Init /\ [][NextConsume]_vars

\* the in-process DAG alone: one task on one video
NextDag ==
    \/ process_video_task
    \/ graph_app

SpecDag == Init /\ [][NextDag]_vars

\* the stages of a recorded video on the launcher's jobs, without the broker's
\* deliveries
NextRecorded ==
    \/ process_video
    \/ handle_transcriber
    \/ \E msg \in calls["analyst"] : analyst_start(msg)
    \/ analyst_locate
    \/ \E call \in AnalystCalls : analyst_run(call)
    \/ analyst_after_publish
    \/ handle_editor

SpecRecorded == Init /\ [][NextRecorded]_vars

\* a stream whose collect envelope can be handled again, the segment
\* envelopes being read by the transcriber
NextRepeat ==
    \/ process_stream
    \/ handle_collector
    \/ handle_collector_again
    \/ \E msg \in calls["transcriber"] : transcriber_start(msg)

SpecRepeat == Init /\ [][NextRepeat]_vars

\* the transcriber, and the analyst and the editor up to the call of their
\* collaborator, on the launcher's job and on envelopes from outside the
\* pipeline, whose jobs the store may not know
NextUnknown ==
    \/ process_video
    \/ \E q \in DlqArgsQueues :
          \E body \in {json_dumps(m) : m \in ForeignEnvelopes(q)} : ForeignPublish(q, body)
    \/ \E msg \in calls["collector"] : collector_start(msg)
    \/ handle_transcriber
    \/ \E msg \in calls["analyst"] : analyst_start(msg)
    \/ analyst_sleep
    \/ analyst_locate
    \/ \E msg \in calls["editor"] : editor_start(msg)

SpecUnknown == Init /\ [][NextUnknown]_vars

\* the same stages, with the store becoming unreachable at any moment
NextOutage ==
    \/ NextRecorded
    \/ \E client \in RedisClients \ {"connected"} : redis_outage(client)

SpecOutage == Init /\ [][NextOutage]_vars

\* ------------------------------------------------------------------------
\* Properties
\* ------------------------------------------------------------------------
\* how often x occurs in a sequence
Occurrences(seq, x) == Cardinality({i \in DOMAIN seq : seq[i] = x})

\* the settled deliveries of worker w's queue that carried the envelope msg
DeliveriesOf(w, msg) ==
    {d \in settled : d.queue = WorkerQueue(w) /\ d.body = json_dumps(msg)}

Terminal(status) == status \in {COMPLETED, FAILED}

\* nothing is waiting, delivered or running
Quiescent ==
    \A w \in Workers :
        /\ pc[w] = "idle"
        /\ calls[w] = {}
        /\ unacked[w] = NoDelivery
        /\ queues[WorkerQueue(w)] = <<>>

\* the stage of a worker, as its step names spell it
Stage(w) ==
    CASE w = "collector" -> "collect"
      [] w = "transcriber" -> "transcribe"
      [] w = "analyst" -> "analyse"
      [] w = "editor" -> "edit"

\* C1: every settled delivery whose body parses as JSON had the stage handler
\* invoked on its envelope exactly once, and none of them was acked without
\* the handler having run on it
C1_HandlerRunsOncePerDelivery ==
    \A d \in settled :
        ~ JSONDecodeError(d.body) =>
            /\ d.handler_calls = 1
            /\ d.outcome = "ack" => d.handler_calls >= 1

\* C2: a delivery from COLLECT, TRANSCRIBE, ANALYSE or EDIT on whose envelope
\* the stage handler raises is nacked without requeue: its body lies exactly
\* once in dead_letter_queue and is not back on the primary queue
C2_RaisedIsDeadLettered ==
    \A d \in settled : \A h \in handled :
        (/\ ~ JSONDecodeError(d.body)
         /\ h.result = "raised"
         /\ h.worker = QueueWorker(d.queue)
         /\ h.msg = json_loads(d.body))
        => /\ d.outcome = "nack"
           /\ Occurrences(queues[DEAD_LETTER_QUEUE], d.body) = 1
           /\ Occurrences(queues[d.queue], d.body) = 0

\* C3: in every job record the status only moves PENDING -> PROCESSING ->
\* COMPLETED or FAILED: no step changes a COMPLETED or FAILED status, and no
\* step takes PROCESSING back to PENDING
C3_StatusMonotone ==
    [][\A k \in DOMAIN redis :
          k \in DOMAIN redis' =>
             /\ Terminal(redis[k].status) => redis'[k].status = redis[k].status
             /\ redis[k].status = PROCESSING => redis'[k].status # PENDING]_vars

\* C4: once every message has been consumed and every handler has ended, each
\* recorded job and each stream child is COMPLETED or FAILED (the parent of a
\* fan-out, which carries segment_count, stays at its last step)
C4_ConsumedJobsFinish ==
    Quiescent =>
        \A k \in DOMAIN redis :
            "segment_count" \in DOMAIN redis[k] \/ Terminal(redis[k].status)

\* C5: when the collaborator of a stage fails, the step of that failure
\* publishes nothing and leaves the job FAILED with step <stage>_failed, and
\* every delivery of the envelope is nacked (dead-lettered)
C5_CollaboratorFailureFailsJob ==
    [][/\ \A f \in failures' \ failures :
             /\ sent' = sent
             /\ HasJobState(redis', f.msg.job_id)
             /\ get_job_state(redis', f.msg.job_id).status = FAILED
             /\ get_job_state(redis', f.msg.job_id).current_step = Stage(f.worker) \o "_failed"
       /\ \A f \in failures' : \A d \in DeliveriesOf(f.worker, f.msg)' :
             d.outcome = "nack"]_vars

\* the ways the LLM call of the analyst fails to give highlights
LLMFailureKinds == {"raises", "safety", "invalid_json", "schema_invalid", "empty"}

\* C6: when the LLM call raises, is stopped, returns no highlight or a reply
\* that fails validation, the analyst step writes no file, publishes no EDIT
\* message and leaves the job FAILED with step analyse_failed
C6_LLMFailureIsReported ==
    [][\A f \in failures' \ failures :
          (f.worker = "analyst" /\ f.how \in LLMFailureKinds) =>
             /\ files' = files
             /\ sent' = sent
             /\ HasJobState(redis', f.msg.job_id)
             /\ get_job_state(redis', f.msg.job_id).status = FAILED
             /\ get_job_state(redis', f.msg.job_id).current_step = "analyse_failed"]_vars

\* the TRANSCRIBE messages published so far for the segments of parent
ChildMessages(parent) ==
    SelectSeq(sent, LAMBDA s : /\ s.queue = TRANSCRIBE_QUEUE
                               /\ "parent_job_id" \in DOMAIN s.message.payload
                               /\ s.message.payload.parent_job_id = parent)

\* a segment index as three digits
ThreeDigits(i) ==
    CASE i = 0 -> "000" [] i = 1 -> "001" [] i = 2 -> "002" [] i = 3 -> "003"
      [] i = 4 -> "004" [] OTHER -> "???"

\* the first count segments of segment_paths have been fanned out for parent:
\* one message each, in list order, with the child's id and payload, and the
\* child's record in the store
FannedOut(parent, segment_paths, count) ==
    LET msgs == ChildMessages(parent)
    IN  /\ Len(msgs) = count
        /\ \A i \in 0 .. count - 1 :
              LET m == msgs[i + 1].message
              IN  /\ m.job_id = parent \o "_seg" \o ThreeDigits(i)
                  /\ m.payload.segment_index = i
                  /\ m.payload.total_segments = Len(segment_paths)
                  /\ m.payload.parent_job_id = parent
                  /\ m.payload.segment_path = segment_paths[i + 1]
                  /\ HasJobState(redis, m.job_id)
                  /\ "parent_job_id" \in DOMAIN get_job_state(redis, m.job_id)
                  /\ get_job_state(redis, m.job_id).parent_job_id = parent

\* C7: for a collector result with N >= 1 segment paths handle_collector
\* publishes exactly N TRANSCRIBE messages in list order, the i-th with job_id
\* <parent>_seg<i as 3 digits>, segment_index i, total_segments N, parent_job_id
\* and the i-th path, each after the child's record with parent_job_id exists
C7_SegmentFanOut ==
    /\ pc["collector"] \in {"segment_init", "segment_update", "segment_publish",
                            "segments_published"} =>
          /\ Len(loc["collector"].segment_paths) >= 1
          /\ FannedOut(arg["collector"].job_id, loc["collector"].segment_paths,
                       loc["collector"].idx)
          /\ pc["collector"] = "segments_published" =>
                loc["collector"].idx = Len(loc["collector"].segment_paths)
          /\ pc["collector"] # "segments_published" =>
                loc["collector"].idx < Len(loc["collector"].segment_paths)
    /\ \A h \in handled :
          (/\ h.worker = "collector"
           /\ "job_id" \in DOMAIN h.msg
           /\ HasJobState(redis, h.msg.job_id)
           /\ "segments_published" \in DOMAIN get_job_state(redis, h.msg.job_id))
          => Len(ChildMessages(h.msg.job_id))
                = get_job_state(redis, h.msg.job_id).segments_published

\* the collector has published the messages of a capture of two segments
C7_Witness ==
    /\ pc["collector"] = "segments_published"
    /\ Len(loc["collector"].segment_paths) = 2
    /\ Len(ChildMessages(arg["collector"].job_id)) = 2

\* a TRANSCRIBE envelope of the stream branch: segment_path and no url
StreamEnvelope(msg) ==
    /\ "job_id" \in DOMAIN msg
    /\ "payload" \in DOMAIN msg
    /\ "segment_path" \in DOMAIN msg.payload
    /\ "url" \notin DOMAIN msg.payload

\* C8: after the transcriber handled a stream-branch envelope the child is not
\* failed for lacking a url, and unless ASR failed exactly one ANALYSE message
\* with the child's job_id has been published
C8_StreamSegmentTranscribed ==
    \A h \in handled :
        (h.worker = "transcriber" /\ StreamEnvelope(h.msg) /\ HasJobState(redis, h.msg.job_id))
        => LET current_step == get_job_state(redis, h.msg.job_id).current_step
           IN  /\ current_step # "transcribe_invalid_url"
               /\ current_step # "transcribe_failed" =>
                     Cardinality({i \in DOMAIN sent :
                                     /\ sent[i].queue = ANALYSE_QUEUE
                                     /\ sent[i].message.job_id = h.msg.job_id}) = 1

\* C9: the step that settles a delivery whose body is no JSON nacks it without
\* requeue (the body goes to dead_letter_queue and not back to its queue),
\* invokes no handler and leaves the state store alone
C9_GarbageIsDeadLettered ==
    [][\A w \in Workers :
          (/\ unacked[w] # NoDelivery
           /\ JSONDecodeError(unacked[w])
           /\ unacked'[w] = NoDelivery)
          => /\ queues' = [queues EXCEPT ![DEAD_LETTER_QUEUE] = Append(@, unacked[w])]
             /\ [queue |-> WorkerQueue(w), body |-> unacked[w], outcome |-> "nack",
                 handler_calls |-> 0] \in settled'
             /\ \A d \in settled' :
                   JSONDecodeError(d.body) => d.outcome = "nack" /\ d.handler_calls = 0
             /\ UNCHANGED <<redis, calls, pc, arg, handled>>]_vars

\* a body that is no JSON has been settled and lies in dead_letter_queue
C9_Witness ==
    /\ \E d \in settled : JSONDecodeError(d.body) /\ d.outcome = "nack"
    /\ Occurrences(queues[DEAD_LETTER_QUEUE], Garbage) = 1

\* an envelope that lacks a field its stage requires
LacksRequiredField(queue, msg) ==
    \/ "job_id" \notin DOMAIN msg
    \/ /\ queue = TRANSCRIBE_QUEUE
       /\ "url" \notin DOMAIN GetPayload(msg)
       /\ "segment_path" \notin DOMAIN GetPayload(msg)
    \/ /\ queue = COLLECT_QUEUE
       /\ "stream_url" \notin DOMAIN GetPayload(msg)
    \/ /\ queue = ANALYSE_QUEUE
       /\ \/ "transcription_path" \notin DOMAIN GetPayload(msg)
          \/ "video_path" \notin DOMAIN GetPayload(msg)

\* C10: a parseable envelope that lacks a required field is never acked but
\* nacked (dead-lettered), and the handler called on it leaves the state
\* store unchanged
C10_MissingFieldIsDeadLettered ==
    [][/\ \A d \in settled' :
             (~ JSONDecodeError(d.body) /\ LacksRequiredField(d.queue, json_loads(d.body)))
             => d.outcome = "nack"
       /\ \A w \in Workers : \A msg \in calls[w] \ calls'[w] :
             LacksRequiredField(WorkerQueue(w), msg) => redis' = redis]_vars

\* C11: the analyst call that ends for want of the transcript has looked for
\* it 3 more times, publishes nothing, leaves the job FAILED with step
\* analyse_missing_transcription, and every delivery of its envelope is nacked
\* (dead-lettered)
C11_MissingTranscriptionDeadLettered ==
    [][\A h \in handled' \ handled :
          (h.worker = "analyst" /\ h.result = "returned" /\ pc["analyst"] = "wait") =>
             /\ loc["analyst"].attempt = 3
             /\ sent' = sent
             /\ HasJobState(redis', h.msg.job_id) =>
                   /\ get_job_state(redis', h.msg.job_id).status = FAILED
                   /\ get_job_state(redis', h.msg.job_id).current_step
                         = "analyse_missing_transcription"
             /\ \A d \in DeliveriesOf("analyst", h.msg)' :
                   /\ d.outcome = "nack"
                   /\ Occurrences(queues'[DEAD_LETTER_QUEUE], d.body) = 1]_vars

\* C12: the collector step whose capture leaves no segment file leaves the
\* parent FAILED with current_step collect_no_segments, creates no child
\* record and publishes no TRANSCRIBE message
C12_NoSegmentsFailsParent ==
    [][\A f \in failures' \ failures :
          (f.worker = "collector" /\ f.how = "no_segments") =>
             /\ HasJobState(redis', f.msg.job_id)
             /\ get_job_state(redis', f.msg.job_id).status = FAILED
             /\ get_job_state(redis', f.msg.job_id).current_step = "collect_no_segments"
             /\ DOMAIN redis' = DOMAIN redis
             /\ sent' = sent]_vars

\* C13: the editor step that publishes to COMPLETED sends final_video_path =
\* the first clip cut and clips_paths listing every clip cut in that step, and
\* the call ends with the job COMPLETED; the editor step in which no cut
\* succeeds publishes nothing and leaves the job FAILED
C13_ClipsOfCompletedJob ==
    [][/\ \A i \in DOMAIN sent' \ DOMAIN sent :
             sent'[i].queue = COMPLETED_QUEUE =>
                LET payload == sent'[i].message.payload
                IN  /\ "clips_paths" \in DOMAIN payload
                    /\ Len(payload.clips_paths) >= 1
                    /\ payload.final_video_path = payload.clips_paths[1]
                    /\ {payload.clips_paths[j] : j \in DOMAIN payload.clips_paths}
                          = {f \in DOMAIN files' \ DOMAIN files : files'[f].type = "media"}
       /\ (pc["editor"] = "published" /\ pc'["editor"] = "idle"
              /\ HasJobState(redis', arg["editor"].job_id))
             => get_job_state(redis', arg["editor"].job_id).status = COMPLETED
       /\ \A f \in failures' \ failures :
             (f.worker = "editor" /\ f.how = "no_clip") =>
                /\ sent' = sent
                /\ HasJobState(redis', f.msg.job_id)
                /\ get_job_state(redis', f.msg.job_id).status = FAILED]_vars

\* the clips the editor agent returns when every cut it attempts succeeds
ClipsWhenCutsSucceed(highlights, output_dir) ==
    generated_clips(highlights, [i \in 1 .. Len(highlights) |-> TRUE], 1, output_dir)

\* C14: of the highlights the editor is about to cut, every one with
\* end <= start gets a clip of the 5 seconds from its start (clamped to >= 0):
\* it is rewritten, never skipped
C14_ReversedHighlightIsRewritten ==
    (pc["editor"] = "edit" /\ arg["editor"].payload.video_path \in DOMAIN files) =>
        LET highlights == EditorHighlights(arg["editor"])
            output_dir == EditorOutputDir(arg["editor"].job_id)
            clips == ClipsWhenCutsSucceed(highlights, output_dir)
        IN  \A idx \in DOMAIN highlights :
               highlights[idx].end <= highlights[idx].start =>
                  LET start == IF highlights[idx].start < 0 THEN 0 ELSE highlights[idx].start
                  IN  \E c \in DOMAIN clips :
                         clips[c] = ClipPath(output_dir, idx, start, start + 5)

\* ------------------------------------------------------------------------
\* Properties of the in-process DAG
\* ------------------------------------------------------------------------
Min(a, b) == IF a < b THEN a ELSE b

SortedByStart(highlights) ==
    \A i, j \in DOMAIN highlights : i < j => highlights[i].start <= highlights[j].start

\* the calls of the analyst made so far by node_analisar
LLMCalls == {collab_calls[i] : i \in {k \in DOMAIN collab_calls : collab_calls[k].collaborator = "llm"}}

\* the LLM answered with at least one candidate highlight
Answered(c) ==
    /\ ~ c.call.raised
    /\ c.call.reply.kind = "valid"
    /\ c.call.reply.highlights # <<>>

\* the highlights file of the video the task runs on
HighlightsFile == get_video_paths(state.video_id).highlight_json_path

\* C15: for the candidates the LLM returned and the max_highlights of the
\* request, the highlights the analyst emits are min(|candidates|,
\* max_highlights) in number and ordered by start ascending.
C15_EmitsMinOfCandidatesAndMax ==
    \A c \in LLMCalls :
       (Answered(c) /\ HighlightsFile \in DOMAIN files) =>
          LET emitted == files[HighlightsFile].data.val.highlights
          IN  /\ Len(emitted) = Min(Len(c.call.reply.highlights), state.max_highlights)
              /\ SortedByStart(emitted)

\* the files the analyst wrote: the worker's highlight dict (start and end
\* under highlight_inicio_segundos / highlight_fim_segundos) and the
\* highlights.json of node_analisar
AnalystFiles ==
    {p \in DOMAIN files :
        /\ files[p].type = "json"
        /\ files[p].data.is = "dict"
        /\ \/ "highlight_inicio_segundos" \in DOMAIN files[p].data.val
           \/ p.base = "highlights" /\ "highlights" \in DOMAIN files[p].data.val}

\* C16: every highlight in a highlights file written by the analyst, by the
\* broker worker or by the analyse node of the DAG, has 0 <= start < end.
C16_WrittenHighlightsHaveStartBeforeEnd ==
    \A p \in AnalystFiles :
       LET d == files[p].data.val
       IN  IF "highlights" \in DOMAIN d
           THEN \A i \in DOMAIN d.highlights :
                   0 <= d.highlights[i].start /\ d.highlights[i].start < d.highlights[i].end
           ELSE /\ 0 <= d.highlight_inicio_segundos
                /\ d.highlight_inicio_segundos < d.highlight_fim_segundos

\* C17: the analyse stage takes the direct single-call path iff the text of
\* the transcript is at most threshold_chars long, and the chunked path iff
\* it is longer: 20000 goes direct, 20001 goes chunked.
C17_ChunkedAboveThreshold ==
    \A c \in LLMCalls :
       /\ c.path = "direct" <=> c.text_len <= threshold_chars
       /\ c.path = "chunked" <=> c.text_len > threshold_chars

\* what the editor agent can have returned for the highlights file at p
EditorOutcomes(p, output_dir) ==
    IF /\ p \in DOMAIN files
       /\ files[p].type = "json"
       /\ files[p].data.is = "dict"
       /\ "highlights" \in DOMAIN files[p].data.val
    THEN {executar_agente_editor(files[p].data.val, cuts, output_dir) :
             cuts \in [1 .. Len(files[p].data.val.highlights) -> BOOLEAN]}
    ELSE {}

\* path is a non-empty .mp4 path, the first of the clips the editor produced
\* from the highlights file at p, and the file is there
CompletedOutput(path, p, output_dir) ==
    /\ path.base # ""
    /\ path.ext = "mp4"
    /\ \E r \in EditorOutcomes(p, output_dir) : ~ r.raised /\ r.clips[1] = path
    /\ path \in DOMAIN files
    /\ files[path].type = "media"

CompletedJobs == {key \in DOMAIN redis : redis[key].status = COMPLETED}

NodeRunsAfterError ==
    /\ dag_pc \in {"analisar", "editar"}
    /\ dag_pc' # dag_pc
    /\ ~ Falsy(state, "error")

\* C19: once a node has set state.error, every later node skips its work: it
\* calls no collaborator, writes no artifact, emits no progress update and
\* leaves the error as it is; the run then ends as failed.
C19_LaterNodesSkipAfterError ==
    [][/\ NodeRunsAfterError =>
            /\ collab_calls' = collab_calls
            /\ files' = files
            /\ progress_writes' = progress_writes
            /\ state'.error = state.error
       /\ (dag_pc = "finish" /\ dag_pc' # dag_pc /\ ~ Falsy(state, "error")) =>
            dag_pc' = "failed"]_vars

\* C20: across the successive progress writes of one task (the initial write
\* of the task, then the waypoints of the nodes) the percentage never
\* decreases, a reset to 0 on failure apart.
C20_ProgressNeverDecreases ==
    \A i \in 1 .. Len(progress_writes) - 1 :
       \/ progress_writes[i].percentage <= progress_writes[i + 1].percentage
       \/ progress_writes[i + 1].percentage = 0

\* C21: when a run of the DAG fails, the row of the video ends FAILED with
\* progress_percentage 0 and a progress_message of at most 200 characters;
\* it never ends COMPLETED.
C21_FailedRunResetsProgress ==
    (dag_pc = "failed" /\ state.video_id = video.id) =>
       /\ video.status = VideoStatus.FAILED
       /\ "progress_percentage" \in DOMAIN video
       /\ video.progress_percentage = 0
       /\ "progress_message" \in DOMAIN video
       /\ Len(video.progress_message) <= 200

\* C22: with the store unreachable every handler still performs its step:
\* a handler call raises only when its own collaborator failed, never because
\* of the store alone.
C22_StoreOutageNeverStopsHandler ==
    \A h \in handled :
        h.result = "raised" =>
            \E f \in failures : f.worker = h.worker /\ f.msg = h.msg

\* C23: for the JSON shapes describing the same highlights, the editor agent's
\* normalizer and the editor worker's conversion both accept the input and
\* both give the list of those highlights (same start, end, summary, score).
C23_ShapesNormalizeAlike ==
    norm.out # EmptyDict =>
        \A by \in {"agent", "worker"} :
            /\ ~ norm.out[by].raised
            /\ norm.out[by].highlights = norm.highlights

\* the agent's normalizer alone does so
AgentNormalizesAlike ==
    norm.out # EmptyDict =>
        /\ ~ norm.out.agent.raised
        /\ norm.out.agent.highlights = norm.highlights

\* what AnalystAgent.run returned to the analyst worker, as json.dump left it
\* in the analysis directory: a pair would be a list of two
RunResults ==
    {files[p].data : p \in {q \in DOMAIN files :
                              files[q].type = "json" /\ q.dir # <<>>
                              /\ q.dir[Len(q.dir)] = "analysis"}}

\* C24: AnalystAgent.run returns a pair (output, error) in which exactly one
\* component is None.
C24_RunReturnsPair ==
    \A r \in RunResults :
        /\ r.is = "list"
        /\ Len(r.val) = 2
        /\ (r.val[1] = "None") # (r.val[2] = "None")

\* C25: the sets of file paths written by two concurrent runs are disjoint
C25_RunsWriteDisjointPaths ==
    \A r1, r2 \in 1 .. MaxRuns :
        r1 # r2 => runs[r1].written \cap runs[r2].written = {}

\* the job and stage of an unacknowledged delivery
Held(w) == [queue |-> WorkerQueue(w), job_id |-> json_loads(unacked[w]).job_id]

Holding == {w \in Consumers : unacked[w] # NoDelivery /\ ~ JSONDecodeError(unacked[w])}

StepRecorded(queue) ==
    CASE queue = ANALYSE_QUEUE -> "analyse"
      [] queue = EDIT_QUEUE -> "edit"
      [] queue = COMPLETED_QUEUE -> "completed"

\* C27: in each stage handler that advances a job the update recording the
\* new step is written before the successor message is published: at the
\* publish the job's record already names the new step.
C27_UpdatePrecedesPublish ==
    [][(Len(sent') = Len(sent) + 1
          /\ sent'[Len(sent')].queue \in {ANALYSE_QUEUE, EDIT_QUEUE, COMPLETED_QUEUE})
       => LET published == sent'[Len(sent')]
              job_id == published.message.job_id
          IN  /\ HasJobState(redis, job_id)
              /\ get_job_state(redis, job_id).current_step = StepRecorded(published.queue)]_vars

\* the jobs the editor has handed to COMPLETED
EditedJobs ==
    {sent[i].message.job_id : i \in {k \in DOMAIN sent : sent[k].queue = COMPLETED_QUEUE}}

\* C28: no update of a job's record is lost: once the handlers have all
\* returned, the record of a job the editor completed has the step of the
\* latest stage reached and every field the handlers wrote.
C28_NoUpdateLost ==
    (\A w \in Workers : pc[w] = "idle") =>
        \A job_id \in EditedJobs :
            HasJobState(redis, job_id) =>
                LET record == get_job_state(redis, job_id)
                IN  /\ record.current_step = "completed"
                    /\ record.status = COMPLETED
                    /\ {"url", "transcription_path", "video_path", "highlight_path",
                        "final_video_path", "original_video_path", "highlight_json_path"}
                          \subseteq DOMAIN record

\* the stage whose handler publishes to a queue
Publisher(queue) ==
    CASE queue = ANALYSE_QUEUE -> "transcriber"
      [] queue = EDIT_QUEUE -> "analyst"
      [] queue = COMPLETED_QUEUE -> "editor"

\* C29: a stage publishes its successor message only after its own input
\* delivery has been positively acknowledged.
C29_PublishAfterAck ==
    [][(Len(sent') = Len(sent) + 1
          /\ sent'[Len(sent')].queue \in {ANALYSE_QUEUE, EDIT_QUEUE, COMPLETED_QUEUE})
       => LET w == Publisher(sent'[Len(sent')].queue)
          IN  \E d \in settled :
                 /\ d.queue = WorkerQueue(w)
                 /\ d.body = json_dumps(arg[w])
                 /\ d.outcome = "ack"]_vars

\* the positions in sent of the messages of a job published to a queue
SentTo(queue, job_id) ==
    {i \in DOMAIN sent : sent[i].queue = queue /\ sent[i].message.job_id = job_id}

FailedWrites ==
    {key \in DOMAIN redis' :
        /\ redis'[key].status = FAILED
        /\ (key \notin DOMAIN redis \/ redis[key] # redis'[key])}

\* C31: a stage handler that sets a job to FAILED publishes nothing for
\* that envelope afterwards: the step that records FAILED publishes no
\* message and is the last step of the handler call made on the job's
\* envelope, so the same handling never advances the job to the next stage.
C31_FailedIsNotAdvanced ==
    [][FailedWrites # {}
       => /\ sent' = sent
          /\ \E h \in handled' \ handled :
                /\ get_job_key(h.msg.job_id) \in FailedWrites
                /\ pc'[h.worker] = "idle"]_vars

\* a handler call that ended with its job FAILED, its collaborator having failed
C31_Witness ==
    \E h \in handled :
        /\ \E f \in failures : f.worker = h.worker /\ f.msg = h.msg
        /\ HasJobState(redis, h.msg.job_id)
        /\ get_job_state(redis, h.msg.job_id).status = FAILED
        /\ ~ \E i \in DOMAIN sent :
                /\ sent[i].queue \in {ANALYSE_QUEUE, EDIT_QUEUE, COMPLETED_QUEUE}
                /\ Publisher(sent[i].queue) = h.worker
                /\ sent[i].message.job_id = h.msg.job_id

\* ------------------------------------------------------------------------
\* properties of create_chunks_from_segments
\* ------------------------------------------------------------------------
\* the segments are sorted by start
SortedSegments(segments) ==
    \A a, b \in DOMAIN segments : a < b => segments[a] <= segments[b]

\* C32: for segments sorted by start, every segment placed in a chunk has
\* start < the chunk_end of that chunk's window (the first window is
\* [0, chunk_duration), each later one starts overlap before the end of the
\* previous one), also when two consecutive segments are more than one
\* window apart.
C32_PlacedBeforeChunkEnd ==
    (chunker.pc # "uncalled" /\ SortedSegments(chunker.segments)) =>
        \A k \in DOMAIN chunker.chunks :
            \A j \in DOMAIN chunker.chunks[k] :
                chunker.segments[chunker.chunks[k][j]] < chunker.windows[k].chunk_end_time

\* the positions a chunk holds
Members(chunk) == {chunk[j] : j \in DOMAIN chunk}

InInputOrder(chunk) == \A a, b \in DOMAIN chunk : a < b => chunk[a] < chunk[b]

\* C34: create_chunks_from_segments returns the empty list iff there are no
\* segments; otherwise every chunk returned is non-empty, every input
\* segment is in at least one chunk, the segments of a chunk are in input
\* order; and the call returns after one loop turn per segment for every
\* chunk_duration > 0 and overlap >= 0, overlap >= chunk_duration included.
C34_ChunksCoverSegments ==
    /\ chunker.pc = "returned" =>
          /\ chunker.result = <<>> <=> chunker.segments = <<>>
          /\ \A k \in DOMAIN chunker.result :
                /\ chunker.result[k] # <<>>
                /\ InInputOrder(chunker.result[k])
          /\ \A segment \in DOMAIN chunker.segments :
                \E k \in DOMAIN chunker.result : segment \in Members(chunker.result[k])
    /\ chunker.pc = "walk" =>
          /\ chunker.i \in 1 .. Len(chunker.segments) + 1
          /\ ENABLED (chunks_segment \/ chunks_return)
    /\ chunker.pc = "called" => ENABLED (chunks_of_nothing \/ chunks_first_window)

\* a call with overlap >= chunk_duration has returned several chunks, the
\* first segment having started after the first window
C34_Witness ==
    /\ chunker.pc = "returned"
    /\ chunker.overlap_seconds >= chunker.chunk_duration_seconds
    /\ Len(chunker.result) > 1
    /\ chunker.segments[1] >= chunker.chunk_duration_seconds

\* ------------------------------------------------------------------------
\* properties of build_clipped_transcription
\* ------------------------------------------------------------------------
\* the places of the segments that overlap [start, end]
Overlapping ==
    {i \in DOMAIN clipper.segments :
        ~ (clipper.segments[i].end < clipper.start \/ clipper.segments[i].start > clipper.end)}

\* C35: build_clipped_transcription(start, end) emits, in input order, one
\* segment for each ASR segment that overlaps [start, end] and none for the
\* others; an emitted segment starts at max(seg_start, start) - start and ends
\* at min(seg_end, end) - start, or half a second after its start when that
\* end is not after the start; so 0 <= new_start < new_end and
\* new_start <= end - start.
C35_ClippedSegments ==
    clipper.pc = "returned" =>
        LET result == clipper.result
            start == clipper.start
            end == clipper.end
        IN  /\ Len(result) = Cardinality(Overlapping)
            /\ \A a, b \in DOMAIN result : a < b => result[a].text < result[b].text
            /\ \A k \in DOMAIN result :
                  LET seg == clipper.segments[result[k].text]
                      lo == IF seg.start > start THEN seg.start ELSE start
                      hi == IF seg.end < end THEN seg.end ELSE end
                  IN  /\ result[k].text \in Overlapping
                      /\ result[k].start = lo - start
                      /\ result[k].end = IF hi - start <= lo - start THEN lo - start + 1
                                         ELSE hi - start
                      /\ 0 <= result[k].start
                      /\ result[k].start < result[k].end
                      /\ result[k].start <= end - start

\* a call returned a widened segment after a projected one: the second
\* segment ends where the range starts
C35_Witness ==
    /\ clipper.pc = "returned"
    /\ \E a, b \in DOMAIN clipper.result :
          /\ a < b
          /\ clipper.result[a].end > clipper.result[a].start + 1
          /\ clipper.result[b].end = clipper.result[b].start + 1
          /\ clipper.segments[clipper.result[b].text].end <= clipper.start

\* the band of percentages of a stage
Band(stage) ==
    CASE stage = "transcribing" -> 0 .. 33
      [] stage = "analyzing" -> 33 .. 66
      [] stage = "editing" -> 66 .. 100
      [] OTHER -> 0 .. 100

\* C36: every progress update carries a percentage inside the band of its
\* stage (transcribing 0..33, analyzing 33..66, editing 66..100), and 100 is
\* written only together with the status COMPLETED.
C36_ProgressInsideStageBand ==
    /\ \A i \in DOMAIN progress_writes :
          progress_writes[i].percentage \in Band(progress_writes[i].stage)
    /\ (\E i \in DOMAIN progress_writes : progress_writes[i].percentage = 100) =>
          dag_pc = "completed"

\* C37: once the record of a child job holds parent_job_id, every later
\* operation of the state store on that record (the updates of the
\* transcriber, the analyst and the editor, a repeated run of the collector
\* for the same parent) leaves parent_job_id present and equal to its first
\* value.
C37_ParentJobIdIsKept ==
    [][\A key \in DOMAIN redis :
          "parent_job_id" \in DOMAIN redis[key] =>
             /\ key \in DOMAIN redis'
             /\ "parent_job_id" \in DOMAIN redis'[key]
             /\ redis'[key].parent_job_id = redis[key].parent_job_id]_vars

\* the handler of worker w makes the step: it starts on an envelope or goes on
Acted(w) == pc'[w] # pc[w] \/ loc'[w] # loc[w] \/ calls[w] \ calls'[w] # {}

\* the envelope the handler of worker w makes the step on
Envelope(w) ==
    IF pc[w] # "idle" THEN arg[w] ELSE CHOOSE msg \in calls[w] \ calls'[w] : TRUE

\* C38: update_job_state on a job_id without record creates no record,
\* changes no other record and returns without raising, and get_job_state
\* still reports the job absent: a handler step on an envelope whose job the
\* store does not know leaves the store as it is, the job absent, and raises
\* only for a missing field of the envelope or a failed collaborator.
C38_UnknownJobIsLeftAlone ==
    [][\A w \in Workers :
          (/\ Acted(w)
           /\ "job_id" \in DOMAIN Envelope(w)
           /\ ~ HasJobState(redis, Envelope(w).job_id))
          => /\ redis' = redis
             /\ ~ HasJobState(redis', Envelope(w).job_id)
             /\ \A h \in handled' \ handled :
                   h.result = "raised" =>
                      \/ h.worker = "analyst" /\ AnalystKeyError(h.msg)
                      \/ h.worker = "editor" /\ EditorKeyError(h.msg)
                      \/ failures' # failures]_vars

\* a handler has returned from an envelope of a job the store does not know,
\* after an update of that job, the store holding the record of another job
C38_Witness ==
    /\ HasJobState(redis, JobName(1))
    /\ \E h \in handled :
          /\ h.result = "returned"
          /\ "job_id" \in DOMAIN h.msg
          /\ ~ HasJobState(redis, h.msg.job_id)
          /\ h.worker = "collector"

\* ------------------------------------------------------------------------
\* properties of get_connection
\* ------------------------------------------------------------------------
\* the attempts of a call that failed
Failures(c) == {i \in DOMAIN c.outcomes : c.outcomes[i] = "AMQPConnectionError"}

\* C39: get_connection makes at most 10 attempts, waits 5 seconds between
\* two consecutive failed attempts and never after the last one, returns the
\* connection at the first successful attempt, raises the connection error
\* after the 10th failure, and always terminates: a call that has not ended
\* has made fewer than 10 attempts and can make the next one.
C39_ConnectionRetries ==
    connection # Uncalled =>
        \A w \in Workers :
            LET c == connection[w]
                attempts == Len(c.outcomes)
            IN  /\ attempts <= 10
                /\ \A i \in DOMAIN c.waits : c.waits[i] = 5
                /\ c.pc \in {"try", "returned", "raised"}
                /\ c.pc = "try" =>
                      /\ attempts < 10
                      /\ Failures(c) = 1 .. attempts
                      /\ Len(c.waits) = attempts
                      /\ ENABLED (\E outcome \in ConnectionOutcomes : get_connection(w, outcome))
                /\ c.pc = "returned" =>
                      /\ attempts >= 1
                      /\ Failures(c) = 1 .. attempts - 1
                      /\ Len(c.waits) = attempts - 1
                /\ c.pc = "raised" =>
                      /\ attempts = 10
                      /\ Failures(c) = 1 .. 10
                      /\ Len(c.waits) = 9
                /\ c.pc # "try" =>
                      ~ ENABLED (\E outcome \in ConnectionOutcomes : get_connection(w, outcome))

\* one worker's call raised after its tenth failure, another's returned the
\* connection at its tenth attempt
C39_Witness ==
    /\ connection # Uncalled
    /\ \E w1, w2 \in Workers :
          /\ connection[w1].pc = "raised"
          /\ connection[w2].pc = "returned"
          /\ Len(connection[w2].outcomes) = 10
====
